---- MODULE Spec2Model ----
(***************************************************************************)
(* swush-manager: the trigger evaluation engine (BrazeTriggerService) and  *)
(* the metadata phase of the sync engine (SyncService.syncGameDetails)     *)
(* that feeds it.  Time is counted in minutes.                             *)
(***************************************************************************)
EXTENDS Integers, Sequences, FiniteSets, TLC

\* JS null / SQL NULL of a numeric or timestamp column.
NULL == -1
\* SQL NULL of the text column games.round_state.
NoState == "null"

\* date-fns: one hour, in the model's time unit (minutes).
MinutesPerHour == 60

DEADLINE_REMINDER_MIN_HOURS == 20
DEADLINE_REMINDER_MAX_HOURS == 28

(***************************************************************************)
(* Bounds of the model.                                                    *)
(***************************************************************************)
\* The clock advances ClockStep minutes at a time, at most MaxTicks times.
ClockStep == 30
MaxTicks == 2
\* The upstream's currentRoundIndex ranges over 0..MaxRound.
MaxRound == 6
\* Deadlines are drawn GridStep minutes apart.
GridStep == 30

(***************************************************************************)
(* The store's rows.  Games and triggers are configuration: they are       *)
(* created by the admin routes and are not created or deleted here.        *)
(***************************************************************************)
GameOrder == <<"g1", "g2", "g3">>
GameIds == {GameOrder[i] : i \in 1..Len(GameOrder)}

TriggerTypes == {"deadline_reminder_24h", "round_started", "round_ended"}

TriggerOrder == <<"t1", "t2", "t3", "t4", "t5", "t6">>
TriggerIds == {TriggerOrder[i] : i \in 1..Len(TriggerOrder)}

\* game_triggers rows as configured: UNIQUE(game_id, trigger_type).
TriggerConfig ==
  [t \in TriggerIds |->
    CASE t = "t1" -> [game_id |-> "g1", trigger_type |-> "round_started",         is_active |-> TRUE]
      [] t = "t2" -> [game_id |-> "g1", trigger_type |-> "deadline_reminder_24h", is_active |-> TRUE]
      [] t = "t3" -> [game_id |-> "g1", trigger_type |-> "round_ended",           is_active |-> TRUE]
      [] t = "t4" -> [game_id |-> "g2", trigger_type |-> "round_ended",           is_active |-> TRUE]
      [] t = "t5" -> [game_id |-> "g2", trigger_type |-> "round_started",         is_active |-> FALSE]
      [] t = "t6" -> [game_id |-> "g3", trigger_type |-> "round_started",         is_active |-> TRUE]]

\* games.is_active as configured: g3 was soft-deleted.
GameActive == [g \in GameIds |-> g # "g3"]

Passes == {"p1", "p2"}

VARIABLES
  games,          \* games rows: [GameIds -> Game]
  game_triggers,  \* game_triggers rows: [TriggerIds -> GameTrigger]
  trigger_logs,   \* trigger_logs rows, in insertion order
  now,            \* the wall clock, minutes
  brazeConfigured,\* BRAZE_REST_ENDPOINT and BRAZE_API_KEY are both set
  pass,           \* [Passes -> the state of one processAllTriggers invocation]
  sends,          \* history: per trigger, the 2xx campaign sends since the game's current_round last changed
  sync_logs,      \* sync_logs rows, in insertion order
  elements,       \* elements rows: the upserted batches, as <<game id, batch number>>
  user_game_stats,\* user_game_stats rows: the upserted pages, as <<game id, page number>>
  alerts,         \* the calls of alertService.alertSyncFailure, in order
  run,            \* the state of one syncGame invocation
  client,         \* the state of one SwushClient call
  cron,           \* the state of one invocation of the cron sync route
  manual,         \* the state of one invocation of the manual sync route
  rows,           \* the contents of the elements and user_game_stats rows, by table
  webhookUrl,     \* ALERT_WEBHOOK_URL is set
  limiter         \* the rate limiter of one instance: rateLimitStore, lastCleanup, and its calls

\* The variables of the sync engine, the partner client and the alert service.
syncVars == <<sync_logs, elements, user_game_stats, alerts, run, client, cron, manual, rows, webhookUrl, limiter>>

vars == <<games, game_triggers, trigger_logs, now, brazeConfigured, pass, sends,
          sync_logs, elements, user_game_stats, alerts, run, client, cron, manual, rows, webhookUrl, limiter>>

(***************************************************************************)
(* Upstream game metadata (SwushGameResponse) and the metadata phase.      *)
(***************************************************************************)
RoundStates == {"Pending", "CurrentOpen", "Ended", "EndedLastest"}

Round(idx, st, closes) ==
  [index |-> idx, state |-> st, start |-> closes + MinutesPerHour,
   tradeCloses |-> closes, end |-> closes + 2 * MinutesPerHour]

\* rounds.find(r => r.state in S): the first such round's position, 0 when none.
FindRound(rounds, S) ==
  LET hits == {i \in 1..Len(rounds) : rounds[i].state \in S}
  IN IF hits = {} THEN 0 ELSE CHOOSE i \in hits : \A j \in hits : i <= j

findCurrentRound(rounds) == FindRound(rounds, {"CurrentOpen"})

\* A faulty update: last_synced_at is left out.
syncGameDetailsUpdateUnstamped(game, swushGame, t) ==
  LET rounds == swushGame.rounds
      cur == findCurrentRound(rounds)
      nextPending == FindRound(rounds, {"Pending"})
      ended == FindRound(rounds, {"Ended", "EndedLastest"})
  IN [game EXCEPT
        !.current_round = swushGame.currentRoundIndex,
        !.round_state = IF cur # 0 THEN rounds[cur].state
                        ELSE IF ended # 0 THEN rounds[ended].state ELSE NoState,
        !.next_trade_deadline = IF cur # 0 THEN rounds[cur].tradeCloses
                                ELSE IF nextPending # 0 THEN rounds[nextPending].tradeCloses ELSE NULL,
        !.current_round_start = IF cur # 0 THEN rounds[cur].start
                                ELSE IF nextPending # 0 THEN rounds[nextPending].start ELSE NULL,
        !.current_round_end = IF cur # 0 THEN rounds[cur].end
                              ELSE IF ended # 0 THEN rounds[ended].end ELSE NULL]

\* The games row after syncGameDetails' update, from the upstream response.
syncGameDetailsUpdate(game, swushGame, t) ==
  LET rounds == swushGame.rounds
      cur == findCurrentRound(rounds)
      nextPending == FindRound(rounds, {"Pending"})
      ended == FindRound(rounds, {"Ended", "EndedLastest"})
  IN [game EXCEPT
        !.current_round = swushGame.currentRoundIndex,
        !.round_state = IF cur # 0 THEN rounds[cur].state
                        ELSE IF ended # 0 THEN rounds[ended].state ELSE NoState,
        !.next_trade_deadline = IF cur # 0 THEN rounds[cur].tradeCloses
                                ELSE IF nextPending # 0 THEN rounds[nextPending].tradeCloses ELSE NULL,
        !.current_round_start = IF cur # 0 THEN rounds[cur].start
                                ELSE IF nextPending # 0 THEN rounds[nextPending].start ELSE NULL,
        !.current_round_end = IF cur # 0 THEN rounds[cur].end
                              ELSE IF ended # 0 THEN rounds[ended].end ELSE NULL,
        !.last_synced_at = t]

(***************************************************************************)
(* BrazeTriggerService: the fire conditions.                               *)
(***************************************************************************)
\* A faulty differenceInHours: rounds to the nearest hour instead of truncating.
differenceInHoursRounded(later, earlier) ==
  LET d == later - earlier
  IN IF d >= 0 THEN (2 * d + MinutesPerHour) \div (2 * MinutesPerHour)
     ELSE -((2 * (-d) + MinutesPerHour) \div (2 * MinutesPerHour))

\* date-fns differenceInHours: the difference in hours, truncated toward zero.
differenceInHours(later, earlier) ==
  LET d == later - earlier
  IN IF d >= 0 THEN d \div MinutesPerHour ELSE -((-d) \div MinutesPerHour)

checkDeadlineReminder24h(game, trigger, t) ==
  IF game.next_trade_deadline = NULL
  THEN [shouldTrigger |-> FALSE, reason |-> "No trade deadline set"]
  ELSE LET hoursUntilDeadline == differenceInHours(game.next_trade_deadline, t)
       IN IF hoursUntilDeadline < DEADLINE_REMINDER_MIN_HOURS
             \/ hoursUntilDeadline > DEADLINE_REMINDER_MAX_HOURS
          THEN [shouldTrigger |-> FALSE, reason |-> "Deadline is outside the window"]
          ELSE IF trigger.last_triggered_round = game.current_round
               THEN [shouldTrigger |-> FALSE, reason |-> "Already triggered for round"]
               ELSE [shouldTrigger |-> TRUE, reason |-> "Deadline is within 24h window"]

\* A faulty checkRoundStarted: the watermark is not looked at.
checkRoundStartedNoWatermark(game, trigger) ==
  IF game.round_state # "CurrentOpen"
  THEN [shouldTrigger |-> FALSE, reason |-> "Round state is not CurrentOpen"]
  ELSE [shouldTrigger |-> TRUE, reason |-> "Round is now open"]

checkRoundStarted(game, trigger) ==
  IF game.round_state # "CurrentOpen"
  THEN [shouldTrigger |-> FALSE, reason |-> "Round state is not CurrentOpen"]
  ELSE IF trigger.last_triggered_round = game.current_round
       THEN [shouldTrigger |-> FALSE, reason |-> "Already triggered for round"]
       ELSE [shouldTrigger |-> TRUE, reason |-> "Round is now open"]

\* A faulty checkRoundEnded: only the state Ended counts as ended.
checkRoundEndedOnlyEnded(game, trigger) ==
  IF game.round_state # "Ended"
  THEN [shouldTrigger |-> FALSE, reason |-> "Round state is not Ended"]
  ELSE IF trigger.last_triggered_round = game.current_round
       THEN [shouldTrigger |-> FALSE, reason |-> "Already triggered for round"]
       ELSE [shouldTrigger |-> TRUE, reason |-> "Round has ended"]

checkRoundEnded(game, trigger) ==
  IF game.round_state # "Ended" /\ game.round_state # "EndedLastest"
  THEN [shouldTrigger |-> FALSE, reason |-> "Round state is not Ended"]
  ELSE IF trigger.last_triggered_round = game.current_round
       THEN [shouldTrigger |-> FALSE, reason |-> "Already triggered for round"]
       ELSE [shouldTrigger |-> TRUE, reason |-> "Round has ended"]

checkTrigger(game, trigger, t) ==
  CASE trigger.trigger_type = "deadline_reminder_24h" -> checkDeadlineReminder24h(game, trigger, t)
    [] trigger.trigger_type = "round_started" -> checkRoundStarted(game, trigger)
    [] trigger.trigger_type = "round_ended" -> checkRoundEnded(game, trigger)
    [] OTHER -> [shouldTrigger |-> FALSE, reason |-> "Unknown trigger type"]

(***************************************************************************)
(* BrazeTriggerService.triggerBrazeCampaign.  `outcome` is what the HTTP   *)
(* exchange with the campaign API does when a request is sent.             *)
(***************************************************************************)
HttpOutcomes == {"ok", "non_json", "http_error", "timeout", "network_error"}

NoResult == [success |-> FALSE, sent |-> FALSE, response |-> "", error |-> ""]

triggerBrazeCampaign(configured, outcome) ==
  IF ~configured
  THEN [success |-> TRUE, sent |-> FALSE, response |-> "Skipped - no Braze credentials", error |-> ""]
  ELSE CASE outcome = "ok" ->
              [success |-> TRUE, sent |-> TRUE, response |-> "dispatch_id", error |-> ""]
         [] outcome = "non_json" ->
              [success |-> FALSE, sent |-> TRUE, response |-> "", error |-> "Invalid response from Braze"]
         [] outcome = "http_error" ->
              [success |-> FALSE, sent |-> TRUE, response |-> "", error |-> "Braze API error"]
         [] outcome = "timeout" ->
              [success |-> FALSE, sent |-> TRUE, response |-> "", error |-> "Braze request timeout"]
         [] OTHER ->
              [success |-> FALSE, sent |-> TRUE, response |-> "", error |-> "fetch failed"]

\* `game.current_round || 1`: the round index processTrigger logs and stores.
RoundIndexArg(game) ==
  IF game.current_round = 0 \/ game.current_round = NULL THEN 1 ELSE game.current_round

\* A faulty guard: the watermark is advanced whatever the dispatch returned.
WatermarkAdvancesAlways(result) == TRUE

\* A faulty guard: the watermark is advanced when the dispatch failed.
WatermarkAdvancesOnFailure(result) == ~result.success

\* processTrigger's `if (result.success)` before updateTriggerLastTriggered.
WatermarkAdvances(result) == result.success

\* logTrigger's status argument.
LogStatus(result) == IF result.success THEN "triggered" ELSE "failed"

(***************************************************************************)
(* The state of one processAllTriggers invocation.                         *)
(***************************************************************************)
NoGame ==
  [id |-> "none", is_active |-> FALSE, current_round |-> NULL, round_state |-> NoState,
   next_trade_deadline |-> NULL, current_round_start |-> NULL, current_round_end |-> NULL,
   sync_interval_minutes |-> 60, last_synced_at |-> NULL]

\* What the evaluation in progress (or the last one) of a pass has done.
NoEval ==
  [trigger |-> "none", game |-> NoGame, wm |-> NULL, at |-> NULL, should |-> FALSE,
   result |-> NoResult, logStatus |-> "none", logRound |-> NULL, logStored |-> FALSE,
   update |-> "none", done |-> FALSE]

IdlePass ==
  [pc |-> "idle", games |-> <<>>, gi |-> 0, triggers |-> <<>>, ti |-> 0,
   results |-> <<>>, gamesProcessed |-> 0, triggersExecuted |-> 0, errors |-> 0,
   ev |-> NoEval, evaluated |-> [t \in TriggerIds |-> 0], fetched |-> {}]

\* Rows of a table in the store's order that satisfy a filter.
RECURSIVE SelectRows(_, _, _)
SelectRows(order, table, keep) ==
  IF order = <<>> THEN <<>>
  ELSE LET rest == SelectRows(Tail(order), table, keep)
       IN IF Head(order) \in keep THEN <<table[Head(order)]>> \o rest ELSE rest

\* A faulty query: the is_active filter is missing.
ActiveGamesAll == GameIds

\* games where is_active = true.
ActiveGames == {g \in GameIds : games[g].is_active}

\* game_triggers where game_id = id and is_active = true.
ActiveTriggersOf(id) ==
  {t \in TriggerIds : game_triggers[t].game_id = id /\ game_triggers[t].is_active}

\* processAllTriggers' tally of one game's results.
Tally(rec, results) ==
  LET executed == {i \in 1..Len(results) : results[i].triggered /\ results[i].success}
      failed == {i \in 1..Len(results) : results[i].triggered /\ ~results[i].success}
  IN [rec EXCEPT !.triggersExecuted = @ + Cardinality(executed),
                 !.errors = @ + Cardinality(failed)]

\* A faulty loop: a failed dispatch ends the game's loop.
AfterTriggerStopOnFailure(rec, r) ==
  LET results == Append(rec.results, r)
  IN IF rec.ti < Len(rec.triggers) /\ ~(r.triggered /\ ~r.success)
     THEN [rec EXCEPT !.results = results, !.ti = @ + 1, !.pc = "process"]
     ELSE [Tally(rec, results) EXCEPT !.results = <<>>, !.triggers = <<>>, !.ti = 0,
                                      !.gi = @ + 1, !.pc = "game_loop"]

\* processGameTriggers' loop after processTrigger returned r: the next
\* trigger, or back to processAllTriggers' loop with the game's results.
AfterTrigger(rec, r) ==
  LET results == Append(rec.results, r)
  IN IF rec.ti < Len(rec.triggers)
     THEN [rec EXCEPT !.results = results, !.ti = @ + 1, !.pc = "process"]
     ELSE [Tally(rec, results) EXCEPT !.results = <<>>, !.triggers = <<>>, !.ti = 0,
                                      !.gi = @ + 1, !.pc = "game_loop"]

(***************************************************************************)
(* SwushClient: one HTTP request per attempt; only getUsers goes through   *)
(* requestWithRetry.  Delays are in milliseconds.                          *)
(***************************************************************************)
MAX_RETRIES == 3
RETRY_BASE_DELAY_MS == 1000

\* SwushApiResponse.error of a response without an error (null).
NoError == ""

\* What one fetch can meet: an HTTP error status, a 2xx with a JSON body, a
\* 2xx whose JSON body is null, a 2xx whose body is not JSON, the abort of the
\* request timeout, a transport failure.
HttpErrorStatuses == {400, 404, 408, 429, 500, 503}
Answer(kind, status) == [kind |-> kind, status |-> status]
JsonAnswer == Answer("json", 200)
Answers ==
  {Answer("http_error", st) : st \in HttpErrorStatuses}
    \cup {JsonAnswer, Answer("empty_json", 200), Answer("invalid_json", 200),
          Answer("timeout", 0), Answer("network_error", 0)}

\* `HTTP ${response.status}: ${response.statusText}`
HttpErrorText(status) ==
  CASE status = 400 -> "HTTP 400: Bad Request"
    [] status = 404 -> "HTTP 404: Not Found"
    [] status = 408 -> "HTTP 408: Request Timeout"
    [] status = 429 -> "HTTP 429: Too Many Requests"
    [] status = 500 -> "HTTP 500: Internal Server Error"
    [] OTHER -> "HTTP 503: Service Unavailable"

\* SwushClient.request: the SwushApiResponse of one fetch.  data is TRUE when
\* the body is a truthy JSON value.
request(answer) ==
  CASE answer.kind = "http_error" ->
         [data |-> FALSE, error |-> HttpErrorText(answer.status), status |-> answer.status]
    [] answer.kind = "invalid_json" ->
         [data |-> FALSE, error |-> "Invalid JSON response from SWUSH API", status |-> 500]
    [] answer.kind = "empty_json" ->
         [data |-> FALSE, error |-> NoError, status |-> answer.status]
    [] answer.kind = "timeout" ->
         [data |-> FALSE, error |-> "Request timeout after 30000ms", status |-> 408]
    [] answer.kind = "network_error" ->
         [data |-> FALSE, error |-> "fetch failed", status |-> 500]
    [] OTHER ->
         [data |-> TRUE, error |-> NoError, status |-> answer.status]

NoResponse == [data |-> FALSE, error |-> NoError, status |-> 0]

\* One SwushClient call: its position, the attempt under way, the answers the
\* attempts met, the delays waited, and the response it returns.
IdleClient ==
  [pc |-> "idle", call |-> "none", page |-> 0, attempt |-> 0, answers |-> <<>>,
   delays |-> <<>>, response |-> NoResponse]

\* getUsers / getGame / getElements / verifyApiKey are entered.  (A call that
\* has returned leaves nothing behind: its caller sets client back to
\* IdleClient or enters the next call.)
StartCall(call, page) ==
  [IdleClient EXCEPT !.pc = "request", !.call = call, !.page = page, !.attempt = 1]

\* requestWithRetry's `response.data && !response.error`.
IsSuccess(response) == response.data /\ response.error = NoError

\* A faulty classification: every 4xx ends the call, 408 and 429 included.
IsNonRetryableAny4xx(response) == response.status >= 400 /\ response.status < 500

\* requestWithRetry's `isClientError && !isRetryableClientError`.
IsNonRetryable(response) ==
  LET isClientError == response.status >= 400 /\ response.status < 500
      isRetryableClientError == response.status = 408 \/ response.status = 429
  IN isClientError /\ ~isRetryableClientError

\* A faulty budget: one attempt fewer.
HasMoreAttemptsShort(attempt) == attempt < MAX_RETRIES

\* A faulty budget: a failed attempt is always followed by another.
HasMoreAttemptsAlways(attempt) == TRUE

\* requestWithRetry's `attempt <= maxRetries`, with the default maxRetries.
HasMoreAttempts(attempt) == attempt <= MAX_RETRIES

\* A faulty backoff: the delay grows linearly.
BackoffDelayLinear(attempt) == RETRY_BASE_DELAY_MS * attempt

\* requestWithRetry's delay after the failed attempt.
BackoffDelay(attempt) == RETRY_BASE_DELAY_MS * 2 ^ (attempt - 1)

\* A faulty wrapper: every call goes through requestWithRetry.
UsesRetryAlways(call) == TRUE

\* Only getUsers calls requestWithRetry; the other calls call request.
UsesRetry(call) == call = "getUsers"

\* One attempt: request, and for getUsers the body of requestWithRetry's loop
\* up to the wait.
Request(answer) ==
  LET response == request(answer)
      c == [client EXCEPT !.answers = Append(@, answer), !.response = response]
  IN /\ client.pc = "request"
     /\ client' =
          IF ~UsesRetry(client.call) \/ IsSuccess(response) \/ IsNonRetryable(response)
             \/ ~HasMoreAttempts(client.attempt)
          THEN [c EXCEPT !.pc = "returned"]
          ELSE [c EXCEPT !.pc = "wait"]
     /\ UNCHANGED <<games, game_triggers, trigger_logs, now, brazeConfigured, pass, sends,
                    sync_logs, elements, user_game_stats, alerts, run, cron, manual, rows, webhookUrl, limiter>>

\* requestWithRetry's wait before the next attempt.
Backoff ==
  /\ client.pc = "wait"
  /\ client' = [client EXCEPT !.delays = Append(@, BackoffDelay(client.attempt)),
                              !.attempt = @ + 1, !.pc = "request"]
  /\ UNCHANGED <<games, game_triggers, trigger_logs, now, brazeConfigured, pass, sends,
                 sync_logs, elements, user_game_stats, alerts, run, cron, manual, rows, webhookUrl, limiter>>

\* verifyApiKey's result: `response.data?.message === 'Ok: Valid API Key'`,
\* for an upstream that answers a valid key with that message.
verifyApiKey(response) == response.data

(***************************************************************************)
(* SyncService.syncGame: createSyncLog, the metadata, catalog and user     *)
(* phases, the final updateSyncLog and the failure alert; one action per   *)
(* awaited call.                                                           *)
(***************************************************************************)
BATCH_SIZE == 100
MAX_PAGE_SIZE == 10

\* SyncResult of a run that has not returned.
NoSyncResult == [returned |-> FALSE, success |-> FALSE, error |-> NoError,
                 elementsSynced |-> 0, usersSynced |-> 0]

\* One syncGame invocation: its position, its arguments and its locals.
\* n counts the invocations so far; started lists the phases entered;
\* waited is the delay, in milliseconds, syncUsers let pass between the end
\* of its last getUsers call and what it did next; upserts lists the batch
\* upserts of syncElements' loop, in order; requested lists the pages of
\* syncUsers' getUsers calls, in order.
IdleRun ==
  [pc |-> "idle", n |-> 0, game |-> NoGame, syncType |-> "manual", logId |-> NULL,
   logUpdate |-> "none", started |-> <<>>, elementsTotal |-> 0, batch |-> 0,
   elementsSynced |-> 0, totalPages |-> 0, page |-> 0, syncedCount |-> 0,
   failedPages |-> <<>>, waited |-> 0, upserts |-> <<>>, requested |-> <<>>,
   error |-> NoError, result |-> NoSyncResult]

\* The cron sync route's response, before it is sent.
NoCronResponse == [returned |-> FALSE, status |-> 0, gamesChecked |-> 0, gamesSynced |-> 0]

\* One invocation of POST /api/cron/sync: its position and its locals.
\* n counts the invocations so far; at is the time of getGamesDueForSync's
\* `new Date()`, fetched tells whether its query succeeded, examined and
\* critical are the games it passed to isInCriticalPeriod and those found
\* critical; results lists the syncGame results of the loop, in order.
IdleCron ==
  [pc |-> "idle", n |-> 0, at |-> NULL, fetched |-> FALSE, gamesDue |-> <<>>,
   examined |-> {}, critical |-> {}, i |-> 0, syncedGames |-> 0, results |-> <<>>,
   response |-> NoCronResponse]

\* One invocation of POST /api/admin/games/:id/sync: its position, the
\* games row it read, the id of its run's sync_logs row, and the status of
\* its response.
IdleManual == [pc |-> "idle", game |-> NoGame, logId |-> NULL, status |-> 0]

\* What the upstream holds of one game: its metadata, its elements, and
\* its users by page.
NoUpstream ==
  [game |-> [currentRoundIndex |-> 0, rounds |-> <<>>], elements |-> <<>>, users |-> <<>>]

\* The elements and user_game_stats tables, empty; the upstream data the
\* catalog and user phases are run against; and, for each such run so far,
\* the writes the store accepted and the tables after it, timestamps left
\* out.
NoRows == [elements |-> {}, user_game_stats |-> {}, upstream |-> NoUpstream, runs |-> <<>>]

(***************************************************************************)
(* The in-memory rate limiter (lib/rate-limit).  Times are Date.now()      *)
(* values in milliseconds, counted from the load of the module.            *)
(***************************************************************************)
CLEANUP_INTERVAL_MS == 60000

RateLimitKeys == {"api:k1", "ip:1"}

\* A key that is not in rateLimitStore.
NoEntry == [count |-> 0, resetTime |-> NULL]

\* RATE_LIMITS.publicApi, the configuration of the public route.
PublicApi == [limit |-> 100, windowSeconds |-> 60]

\* limiter.calls lists the calls of checkRateLimit, in order, with the
\* Date.now() of each and its result.
IdleLimiter ==
  [rateLimitStore |-> [k \in RateLimitKeys |-> NoEntry], lastCleanup |-> 0, now |-> 0,
   config |-> PublicApi, calls |-> <<>>]

\* A faulty cleanup: every entry is deleted, expired or not.
cleanupAllEntries(store, lastCleanup, t) ==
  IF t - lastCleanup < CLEANUP_INTERVAL_MS
  THEN [rateLimitStore |-> store, lastCleanup |-> lastCleanup]
  ELSE [rateLimitStore |-> [k \in DOMAIN store |-> NoEntry], lastCleanup |-> t]

\* cleanupExpiredEntries at time t: at most once per interval, the entries
\* whose resetTime has passed are deleted.
cleanupExpiredEntries(store, lastCleanup, t) ==
  IF t - lastCleanup < CLEANUP_INTERVAL_MS
  THEN [rateLimitStore |-> store, lastCleanup |-> lastCleanup]
  ELSE [rateLimitStore |->
          [k \in DOMAIN store |->
             IF store[k] # NoEntry /\ t > store[k].resetTime THEN NoEntry ELSE store[k]],
        lastCleanup |-> t]

\* checkRateLimit after the cleanup, at time t: the key's entry after the
\* call, and the result.
checkRateLimit(store, key, config, t) ==
  LET windowMs == config.windowSeconds * 1000
      resetTime == t + windowMs
      entry == store[key]
      count == entry.count + 1
  IN IF entry = NoEntry \/ t > entry.resetTime
     THEN [entry |-> [count |-> 1, resetTime |-> resetTime],
           result |-> [success |-> TRUE, limit |-> config.limit,
                       remaining |-> config.limit - 1, resetTime |-> resetTime]]
     ELSE [entry |-> [entry EXCEPT !.count = count],
           result |-> IF count > config.limit
                      THEN [success |-> FALSE, limit |-> config.limit, remaining |-> 0,
                            resetTime |-> entry.resetTime]
                      ELSE [success |-> TRUE, limit |-> config.limit,
                            remaining |-> config.limit - count,
                            resetTime |-> entry.resetTime]]

\* The calls of one behaviour.
RateLimitCalls == {"c1", "c2", "c3", "c4", "c5"}

\* A request calls checkRateLimit(key, config) when Date.now() is t.
CheckRateLimit(key, t) ==
  LET cleaned == cleanupExpiredEntries(limiter.rateLimitStore, limiter.lastCleanup, t)
      checked == checkRateLimit(cleaned.rateLimitStore, key, limiter.config, t)
  IN /\ Len(limiter.calls) < Cardinality(RateLimitCalls)
     /\ t >= limiter.now
     /\ limiter' = [limiter EXCEPT
          !.rateLimitStore = [cleaned.rateLimitStore EXCEPT ![key] = checked.entry],
          !.lastCleanup = cleaned.lastCleanup,
          !.now = t,
          !.calls = Append(@, [key |-> key, at |-> t, result |-> checked.result])]
     /\ UNCHANGED <<games, game_triggers, trigger_logs, now, brazeConfigured, pass, sends,
                    sync_logs, elements, user_game_stats, alerts, run, client, cron, manual,
                    rows, webhookUrl>>

\* Nothing of the sync engine has run.
SyncIdle ==
  /\ sync_logs = <<>>
  /\ elements = {}
  /\ user_game_stats = {}
  /\ alerts = <<>>
  /\ run = IdleRun
  /\ client = IdleClient
  /\ cron = IdleCron
  /\ manual = IdleManual
  /\ rows = NoRows
  /\ limiter = IdleLimiter

\* The run's frame: the trigger engine is not touched.
TriggerFrame ==
  UNCHANGED <<game_triggers, trigger_logs, now, brazeConfigured, pass, cron, manual, rows, webhookUrl, limiter>>

\* syncGame's `throw new Error(result.error)`: control passes to the catch block.
Throw(r, error) == [r EXCEPT !.pc = "catch", !.error = error]

\* `response.error || fallback`
ErrorOr(response, fallback) == IF response.error # NoError THEN response.error ELSE fallback

\* A faulty test: a failed fetch goes unnoticed.
IsFailureNever(response) == FALSE

\* `response.error || !response.data`
IsFailure(response) == response.error # NoError \/ ~response.data

\* syncGame is entered: createSyncLog, then syncGameDetails calls getGame.
\* A rejected insert is only logged and leaves logId null.
\* The game argument is the row as its caller read it.
SyncGameCall(game, syncType, ok) ==
  LET row == [game_id |-> game.id, sync_type |-> syncType, status |-> "started",
              users_synced |-> 0, elements_synced |-> 0, error_message |-> NoError,
              started_at |-> now, completed_at |-> NULL]
  IN /\ run.pc \in {"idle", "done"}
     /\ client.pc \in {"idle", "returned"}
     /\ sync_logs' = IF ok THEN Append(sync_logs, row) ELSE sync_logs
     /\ run' = [IdleRun EXCEPT !.pc = "details", !.n = run.n + 1, !.game = game,
                               !.syncType = syncType,
                               !.logId = IF ok THEN Len(sync_logs) + 1 ELSE NULL,
                               !.started = <<"metadata">>]
     /\ client' = StartCall("getGame", 0)

\* syncGame called with the game's row as the store holds it.
SyncGame(g, syncType, ok) ==
  /\ SyncGameCall(games[g], syncType, ok)
  /\ UNCHANGED <<games, sends, elements, user_game_stats, alerts>>
  /\ TriggerFrame

\* syncGameDetails after getGame returned: the games update; on success
\* syncElements is entered and calls getElements.
SyncGameDetailsUpdate(swushGame, ok) ==
  LET g == run.game.id
      row == syncGameDetailsUpdate(games[g], swushGame, now)
  IN /\ run.pc = "details"
     /\ client.pc = "returned"
     /\ IF IsFailure(client.response)
        THEN /\ run' = Throw(run, ErrorOr(client.response, "Failed to fetch game"))
             /\ client' = IdleClient
             /\ UNCHANGED <<games, sends>>
        ELSE IF ~ok
        THEN /\ run' = Throw(run, "games update rejected")
             /\ client' = IdleClient
             /\ UNCHANGED <<games, sends>>
        ELSE /\ games' = [games EXCEPT ![g] = row]
             /\ sends' = [t \in TriggerIds |->
                            IF game_triggers[t].game_id = g
                               /\ row.current_round # games[g].current_round
                            THEN 0 ELSE sends[t]]
             /\ run' = [run EXCEPT !.pc = "elements", !.started = Append(@, "catalog")]
             /\ client' = StartCall("getElements", 0)
     /\ UNCHANGED <<sync_logs, elements, user_game_stats, alerts>>
     /\ TriggerFrame

\* The number of batches syncElements' loop makes of n elements.
Batches(n) == (n + BATCH_SIZE - 1) \div BATCH_SIZE

\* The size of the batch-th batch of n elements.
BatchLength(n, batch) ==
  IF batch * BATCH_SIZE <= n THEN BATCH_SIZE ELSE n - (batch - 1) * BATCH_SIZE

\* syncElements returned success: syncUsers is entered and calls getUsers(1).
EnterSyncUsers(r) ==
  [r EXCEPT !.pc = "users_first", !.started = Append(@, "users"), !.requested = <<1>>]

\* syncElements after getElements returned n elements.
SyncElementsFetched(n) ==
  /\ run.pc = "elements"
  /\ client.pc = "returned"
  /\ IF IsFailure(client.response)
     THEN /\ run' = Throw(run, ErrorOr(client.response, "Failed to fetch elements"))
          /\ client' = IdleClient
     ELSE IF Batches(n) = 0
     THEN /\ run' = EnterSyncUsers(run)
          /\ client' = StartCall("getUsers", 1)
     ELSE /\ run' = [run EXCEPT !.pc = "elements_upsert", !.elementsTotal = n, !.batch = 1]
          /\ client' = IdleClient
  /\ UNCHANGED <<games, sends, sync_logs, elements, user_game_stats, alerts>>
  /\ TriggerFrame

\* A faulty loop: a rejected upsert fails the phase.
UpsertElementsBatchAbort(ok) ==
  LET size == BatchLength(run.elementsTotal, run.batch)
      r == [run EXCEPT !.elementsSynced = IF ok THEN @ + size ELSE @,
                       !.upserts = Append(@, [batch |-> run.batch, size |-> size, ok |-> ok]),
                       !.batch = @ + 1]
  IN /\ run.pc = "elements_upsert"
     /\ elements' = IF ok THEN elements \cup {<<run.game.id, run.batch>>} ELSE elements
     /\ IF ~ok
        THEN /\ run' = Throw(r, "Failed to upsert elements batch")
             /\ UNCHANGED client
        ELSE IF run.batch < Batches(run.elementsTotal)
        THEN /\ run' = r
             /\ UNCHANGED client
        ELSE /\ run' = EnterSyncUsers(r)
             /\ client' = StartCall("getUsers", 1)
     /\ UNCHANGED <<games, sends, sync_logs, user_game_stats, alerts>>
     /\ TriggerFrame

\* One pass of syncElements' loop: the upsert of a batch; a rejected upsert
\* is logged and the loop continues.
UpsertElementsBatch(ok) ==
  LET size == BatchLength(run.elementsTotal, run.batch)
      r == [run EXCEPT !.elementsSynced = IF ok THEN @ + size ELSE @,
                       !.upserts = Append(@, [batch |-> run.batch, size |-> size, ok |-> ok]),
                       !.batch = @ + 1]
  IN /\ run.pc = "elements_upsert"
     /\ elements' = IF ok THEN elements \cup {<<run.game.id, run.batch>>} ELSE elements
     /\ IF run.batch < Batches(run.elementsTotal)
        THEN /\ run' = r
             /\ UNCHANGED client
        ELSE /\ run' = EnterSyncUsers(r)
             /\ client' = StartCall("getUsers", 1)
     /\ UNCHANGED <<games, sends, sync_logs, user_game_stats, alerts>>
     /\ TriggerFrame

\* A faulty save: the page is counted and nothing is written.
saveUsersPageUnwritten(users, ok) == [success |-> TRUE, count |-> users, upserted |-> FALSE]

\* saveUsersPage of a page with `users` users that have an externalId.
saveUsersPage(users, ok) ==
  IF users = 0 THEN [success |-> TRUE, count |-> 0, upserted |-> FALSE]
  ELSE IF ok THEN [success |-> TRUE, count |-> users, upserted |-> TRUE]
  ELSE [success |-> FALSE, count |-> 0, upserted |-> FALSE]

\* A faulty threshold: 10% itself fails.
failureRateExceededInclusive(failed, total) == 10 * failed >= total

\* syncUsers' `failedPages.length / totalPages > 0.1` (0/0 is NaN, which is
\* not greater; k/0 is Infinity, which is).
failureRateExceeded(failed, total) == 10 * failed > total

\* syncUsers after its loop: the threshold, then back in syncGame.
FinishUsers(r) ==
  IF failureRateExceeded(Len(r.failedPages), r.totalPages)
  THEN Throw(r, "Too many failed pages")
  ELSE [r EXCEPT !.pc = "complete"]

\* A faulty loop: `for (let page = 1; ...)`, which deals with page 1 again.
NextPageFromOne(r) ==
  LET page == IF Len(r.requested) = 1 THEN 1 ELSE r.page + 1
  IN IF page <= r.totalPages
     THEN [r EXCEPT !.page = page, !.pc = "users_page", !.requested = Append(@, page)]
     ELSE FinishUsers(r)

\* syncUsers after a page has been dealt with: the next page, with its
\* getUsers call, or the end.
NextPage(r) ==
  IF r.page < r.totalPages
  THEN [r EXCEPT !.page = @ + 1, !.pc = "users_page", !.requested = Append(@, r.page + 1)]
  ELSE FinishUsers(r)

\* The bookkeeping of one page: syncedCount or failedPages.
AfterPage(r, count, failed) ==
  NextPage([r EXCEPT !.syncedCount = @ + count,
                     !.failedPages = IF failed THEN Append(@, r.page) ELSE @])

\* The end of one pass of syncUsers' loop: `setTimeout(resolve, 100)` after
\* a fetched page, `continue` after a page that was not fetched.
InterPageDelay(fetched) == IF fetched THEN 100 ELSE 0

\* syncUsers after getUsers(1) returned: totalPages, and page 1 is saved;
\* the loop follows at once.
SyncUsersFirst(pages, users, ok) ==
  LET saved == saveUsersPage(users, ok)
      r == AfterPage([run EXCEPT !.totalPages = pages, !.page = 1, !.waited = 0],
                     saved.count, ~saved.success)
  IN /\ run.pc = "users_first"
     /\ client.pc = "returned"
     /\ IF IsFailure(client.response)
        THEN /\ run' = Throw(run, ErrorOr(client.response, "Failed to fetch users"))
             /\ client' = IdleClient
             /\ UNCHANGED user_game_stats
        ELSE /\ run' = r
             /\ user_game_stats' = IF saved.upserted
                                   THEN user_game_stats \cup {<<run.game.id, 1>>}
                                   ELSE user_game_stats
             /\ client' = IF r.pc = "users_page" THEN StartCall("getUsers", r.page) ELSE IdleClient
     /\ UNCHANGED <<games, sends, sync_logs, elements, alerts>>
     /\ TriggerFrame

\* One pass of syncUsers' loop after getUsers(page) returned: a page that
\* could not be fetched is recorded, a fetched page is saved at once.
SyncUsersPage(users, ok) ==
  LET fetched == ~IsFailure(client.response)
      saved == IF fetched THEN saveUsersPage(users, ok)
               ELSE [success |-> FALSE, count |-> 0, upserted |-> FALSE]
      r == AfterPage([run EXCEPT !.waited = InterPageDelay(fetched)],
                     saved.count, ~saved.success)
  IN /\ run.pc = "users_page"
     /\ client.pc = "returned"
     /\ run' = r
     /\ user_game_stats' = IF saved.upserted
                           THEN user_game_stats \cup {<<run.game.id, run.page>>}
                           ELSE user_game_stats
     /\ client' = IF r.pc = "users_page" THEN StartCall("getUsers", r.page) ELSE IdleClient
     /\ UNCHANGED <<games, sends, sync_logs, elements, alerts>>
     /\ TriggerFrame

\* updateSyncLog: a rejected update is only logged.
updateSyncLog(logId, ok, updates) ==
  IF logId # NULL /\ ok THEN [sync_logs EXCEPT ![logId] = updates] ELSE sync_logs

\* What the run knows about its updateSyncLog call.
LogUpdate(logId, ok) == IF logId = NULL THEN "none" ELSE IF ok THEN "stored" ELSE "rejected"

\* syncGame's success path: the row is completed with the counts, and the
\* result is returned.
CompleteSync(ok) ==
  LET id == run.logId
  IN /\ run.pc = "complete"
     /\ sync_logs' = updateSyncLog(id, ok,
          [sync_logs[id] EXCEPT !.status = "completed",
                                !.elements_synced = run.elementsSynced,
                                !.users_synced = run.syncedCount,
                                !.completed_at = now])
     /\ run' = [run EXCEPT !.pc = "done", !.logUpdate = LogUpdate(id, ok),
                           !.result = [returned |-> TRUE, success |-> TRUE, error |-> NoError,
                                       elementsSynced |-> run.elementsSynced,
                                       usersSynced |-> run.syncedCount]]
     /\ UNCHANGED <<games, sends, elements, user_game_stats, alerts, client>>
     /\ TriggerFrame

\* syncGame's catch block, first part: the row is marked failed.
FailSync(ok) ==
  LET id == run.logId
  IN /\ run.pc = "catch"
     /\ sync_logs' = updateSyncLog(id, ok,
          [sync_logs[id] EXCEPT !.status = "failed", !.error_message = run.error,
                                !.completed_at = now])
     /\ run' = [run EXCEPT !.pc = "alert", !.logUpdate = LogUpdate(id, ok)]
     /\ UNCHANGED <<games, sends, elements, user_game_stats, alerts, client>>
     /\ TriggerFrame

\* What the webhook does with one POST: it answers 2xx, it answers another
\* status, or fetch throws.
WebhookOutcomes == {"ok", "rejected", "error"}

\* A faulty sendAlert: the fetch is not inside a try block.
sendAlertUncaught(configured, outcome) ==
  IF ~configured THEN [posts |-> <<>>, sent |-> FALSE, threw |-> FALSE]
  ELSE [posts |-> <<"generic">>, sent |-> outcome = "ok", threw |-> outcome = "error"]

\* sendAlert: the POSTs it makes, its return value, and whether it throws.
sendAlert(configured, outcome) ==
  IF ~configured THEN [posts |-> <<>>, sent |-> FALSE, threw |-> FALSE]
  ELSE [posts |-> <<"generic">>, sent |-> outcome = "ok", threw |-> FALSE]

\* sendSlackAlert: the Slack payload first, sendAlert's payload when that
\* POST is not answered 2xx or throws.
sendSlackAlert(configured, rich, generic) ==
  IF ~configured THEN [posts |-> <<>>, sent |-> FALSE, threw |-> FALSE]
  ELSE IF rich = "ok" THEN [posts |-> <<"slack">>, sent |-> TRUE, threw |-> FALSE]
  ELSE LET fallback == sendAlert(configured, generic)
       IN [posts |-> <<"slack">> \o fallback.posts, sent |-> fallback.sent,
           threw |-> fallback.threw]

\* syncGame's catch block, second part: alertSyncFailure is called with the
\* game, the error and the last_synced_at of the game object the run was
\* given, and the failure is returned.  rich and generic are the webhook's
\* outcomes for the Slack payload and for the plain payload; delivered
\* tells whether a POST was accepted.
AlertSyncFailure(rich, generic) ==
  LET sent == sendSlackAlert(webhookUrl, rich, generic)
  IN /\ run.pc = "alert"
     /\ alerts' = Append(alerts, [type |-> "sync_failure", gameKey |-> run.game.id,
                                  error |-> run.error, timestamp |-> now,
                                  lastSuccessfulSync |-> run.game.last_synced_at,
                                  run |-> run.n, delivered |-> sent.sent,
                                  rich |-> IF webhookUrl THEN rich ELSE "none",
                                  posts |-> sent.posts, threw |-> sent.threw])
     /\ run' = IF sent.threw THEN [run EXCEPT !.pc = "thrown"]
               ELSE [run EXCEPT !.pc = "done",
                                !.result = [returned |-> TRUE, success |-> FALSE,
                                            error |-> run.error,
                                            elementsSynced |-> 0, usersSynced |-> 0]]
     /\ UNCHANGED <<games, sends, sync_logs, elements, user_game_stats, client>>
     /\ TriggerFrame

(***************************************************************************)
(* The schedule: which games a cron call syncs.  Time is in minutes.       *)
(***************************************************************************)
\* isInCriticalPeriod's `critical`, at time t: the round starts or the trade
\* closes in (0, 2 h], or the round ended in [0, 1 h] and the stored state is
\* an ended one.
isInCriticalPeriod(game, t) ==
  \/ /\ game.current_round_start # NULL
     /\ game.current_round_start - t > 0
     /\ game.current_round_start - t <= 2 * MinutesPerHour
  \/ /\ game.next_trade_deadline # NULL
     /\ game.next_trade_deadline - t > 0
     /\ game.next_trade_deadline - t <= 2 * MinutesPerHour
  \/ /\ game.current_round_end # NULL
     /\ game.round_state \in {"Ended", "EndedLastest"}
     /\ t - game.current_round_end >= 0
     /\ t - game.current_round_end <= MinutesPerHour

\* A faulty routine rule: the interval must be exceeded.
IsDueForSyncStrict(game, t) ==
  \/ game.last_synced_at = NULL
  \/ /\ game.last_synced_at # NULL
     /\ IF isInCriticalPeriod(game, t)
        THEN t - game.last_synced_at >= 30
        ELSE t - game.last_synced_at > game.sync_interval_minutes

\* The body of getGamesDueForSync's loop: whether the game is pushed.
IsDueForSync(game, t) ==
  \/ game.last_synced_at = NULL
  \/ /\ game.last_synced_at # NULL
     /\ IF isInCriticalPeriod(game, t)
        THEN t - game.last_synced_at >= 30
        ELSE t - game.last_synced_at >= game.sync_interval_minutes

\* getGamesDueForSync at time t; a failed query gives the empty list.
getGamesDueForSync(ok, t) ==
  IF ok THEN SelectRows(GameOrder, games, {g \in ActiveGames : IsDueForSync(games[g], t)})
  ELSE <<>>

\* The cron sync route is called: getGamesDueForSync, and the response at
\* once when no game is due.
CronSyncPost(ok) ==
  LET gamesDue == getGamesDueForSync(ok, now)
      examined == IF ok THEN {g \in ActiveGames : games[g].last_synced_at # NULL} ELSE {}
      rec == [IdleCron EXCEPT !.n = cron.n + 1, !.at = now, !.fetched = ok,
                              !.gamesDue = gamesDue, !.examined = examined,
                              !.critical = {g \in examined : isInCriticalPeriod(games[g], now)}]
  IN /\ cron.pc \in {"idle", "done"}
     /\ cron' = IF Len(gamesDue) = 0
                THEN [rec EXCEPT !.pc = "done",
                                 !.response = [returned |-> TRUE, status |-> 200,
                                               gamesChecked |-> 0, gamesSynced |-> 0]]
                ELSE [rec EXCEPT !.pc = "loop"]
     /\ UNCHANGED <<games, game_triggers, trigger_logs, now, brazeConfigured, pass, sends,
                    sync_logs, elements, user_game_stats, alerts, run, client, manual, rows, webhookUrl, limiter>>

\* The cron sync route's loop calls syncGame for the next due game, with
\* the row getGamesDueForSync returned.
CronSyncGame(ok) ==
  /\ cron.pc = "loop"
  /\ SyncGameCall(cron.gamesDue[cron.i + 1], "scheduled", ok)
  /\ cron' = [cron EXCEPT !.pc = "awaiting"]
  /\ UNCHANGED <<games, game_triggers, trigger_logs, now, brazeConfigured, pass, sends,
                 elements, user_game_stats, alerts, manual, rows, webhookUrl, limiter>>

\* A faulty loop: a failed run is rethrown and the route answers 500.
CronAfterGameRethrows(rec, result) ==
  LET results == Append(rec.results, [game |-> rec.gamesDue[rec.i + 1].id,
                                      success |-> result.success])
      syncedGames == rec.syncedGames + (IF result.success THEN 1 ELSE 0)
      r == [rec EXCEPT !.results = results, !.syncedGames = syncedGames, !.i = @ + 1]
  IN IF ~result.success
     THEN [r EXCEPT !.pc = "done",
                    !.response = [returned |-> TRUE, status |-> 500,
                                  gamesChecked |-> 0, gamesSynced |-> 0]]
     ELSE IF r.i < Len(rec.gamesDue) THEN [r EXCEPT !.pc = "loop"]
     ELSE [r EXCEPT !.pc = "done",
                    !.response = [returned |-> TRUE, status |-> 200,
                                  gamesChecked |-> Len(rec.gamesDue),
                                  gamesSynced |-> syncedGames]]

\* The loop after syncGame returned result: the tally, then the next due
\* game or the summary.
CronAfterGame(rec, result) ==
  LET results == Append(rec.results, [game |-> rec.gamesDue[rec.i + 1].id,
                                      success |-> result.success])
      syncedGames == rec.syncedGames + (IF result.success THEN 1 ELSE 0)
      r == [rec EXCEPT !.results = results, !.syncedGames = syncedGames, !.i = @ + 1]
  IN IF r.i < Len(rec.gamesDue) THEN [r EXCEPT !.pc = "loop"]
     ELSE [r EXCEPT !.pc = "done",
                    !.response = [returned |-> TRUE, status |-> 200,
                                  gamesChecked |-> Len(rec.gamesDue),
                                  gamesSynced |-> syncedGames]]

\* syncGame has returned to the cron sync route.
CronSyncGameReturned ==
  /\ cron.pc = "awaiting"
  /\ run.pc = "done"
  /\ cron' = CronAfterGame(cron, run.result)
  /\ UNCHANGED <<games, game_triggers, trigger_logs, now, brazeConfigured, pass, sends,
                 sync_logs, elements, user_game_stats, alerts, run, client, manual, rows, webhookUrl, limiter>>

(***************************************************************************)
(* The rows the catalog and user phases write.                             *)
(***************************************************************************)
\* syncElements' upsertData, for one upstream element.
ElementRow(game_id, el, t) ==
  [game_id |-> game_id, element_id |-> el.elementId, value |-> el.value, updated_at |-> t]

\* saveUsersPage's upsertData, for one upstream user.
UserRow(game_id, user, t) ==
  [external_id |-> user.externalId, game_id |-> game_id, swush_user_id |-> user.id,
   score |-> user.score, synced_at |-> t]

\* The columns of a row named by onConflict.
KeyOf(row, onConflict) == [c \in onConflict |-> row[c]]

\* A faulty write: an insert into a table without the UNIQUE constraint.
upsertInsert(table, batch, onConflict) ==
  table \cup {batch[i] : i \in 1..Len(batch)}

\* supabase upsert with onConflict on a UNIQUE constraint: a row of the
\* batch replaces the row with its key, or is inserted.  The store rejects
\* a batch that holds a key twice, and the table stays as it was.
upsert(table, batch, onConflict) ==
  LET keys == {KeyOf(batch[i], onConflict) : i \in 1..Len(batch)}
  IN IF Cardinality(keys) < Len(batch) THEN table
     ELSE {r \in table : KeyOf(r, onConflict) \notin keys} \cup {batch[i] : i \in 1..Len(batch)}

\* syncElements' loop from batch i on: the elements table after it, when
\* the store accepts the batches numbered in accepted.
RECURSIVE syncElementsRows(_, _, _, _, _, _)
syncElementsRows(table, game_id, els, t, accepted, i) ==
  IF i > (Len(els) + BATCH_SIZE - 1) \div BATCH_SIZE THEN table
  ELSE LET last == IF i * BATCH_SIZE < Len(els) THEN i * BATCH_SIZE ELSE Len(els)
           slice == SubSeq(els, (i - 1) * BATCH_SIZE + 1, last)
           batch == [k \in 1..Len(slice) |-> ElementRow(game_id, slice[k], t)]
       IN syncElementsRows(IF i \in accepted
                           THEN upsert(table, batch, {"game_id", "element_id"})
                           ELSE table,
                           game_id, els, t, accepted, i + 1)

\* A faulty filter: every user is kept.
HasExternalIdAny(user) == TRUE

\* SelectSeq's test: the upstream user has an externalId.
HasExternalId(user) == user.externalId # "none"

\* syncUsers' saveUsersPage calls from page p on: the user_game_stats
\* table after them, when the store accepts the pages numbered in accepted.
RECURSIVE syncUsersRows(_, _, _, _, _, _)
syncUsersRows(table, game_id, pages, t, accepted, p) ==
  IF p > Len(pages) THEN table
  ELSE LET usersWithExternalId == SelectSeq(pages[p], HasExternalId)
           batch == [k \in 1..Len(usersWithExternalId) |->
                       UserRow(game_id, usersWithExternalId[k], t)]
       IN syncUsersRows(IF usersWithExternalId # <<>> /\ p \in accepted
                        THEN upsert(table, batch, {"external_id", "game_id"})
                        ELSE table,
                        game_id, pages, t, accepted, p + 1)

\* syncUsers' bookkeeping from page p on, every page fetched: syncedCount
\* and failedPages when the store accepts the pages numbered in accepted.
RECURSIVE syncUsersResult(_, _, _)
syncUsersResult(pages, accepted, p) ==
  IF p > Len(pages) THEN [usersSynced |-> 0, failedPages |-> <<>>]
  ELSE LET usersWithExternalId == SelectSeq(pages[p], HasExternalId)
           saved == saveUsersPage(Len(usersWithExternalId), p \in accepted)
           rest == syncUsersResult(pages, accepted, p + 1)
       IN [usersSynced |-> saved.count + rest.usersSynced,
           failedPages |-> IF saved.success THEN rest.failedPages
                           ELSE <<p>> \o rest.failedPages]

\* The rows of a table with a timestamp column left out.
WithoutColumn(table, column) ==
  {[c \in DOMAIN r \ {column} |-> r[c]] : r \in table}

\* The catalog phase and the user phase of one run of game g against the
\* upstream data, every fetch successful: the rows they leave.
SyncRows(g, batches, pages) ==
  LET els == syncElementsRows(rows.elements, g, rows.upstream.elements, now, batches, 1)
      ugs == syncUsersRows(rows.user_game_stats, g, rows.upstream.users, now, pages, 1)
      users == syncUsersResult(rows.upstream.users, pages, 1)
  IN /\ rows' = [rows EXCEPT
          !.elements = els,
          !.user_game_stats = ugs,
          !.runs = Append(@, [batches |-> batches, pages |-> pages,
                              usersSynced |-> users.usersSynced,
                              failedPages |-> users.failedPages,
                              elements |-> WithoutColumn(els, "updated_at"),
                              user_game_stats |-> WithoutColumn(ugs, "synced_at")])]
     /\ UNCHANGED <<games, game_triggers, trigger_logs, now, brazeConfigured, pass, sends,
                    sync_logs, elements, user_game_stats, alerts, run, client, cron, manual,
                    webhookUrl, limiter>>

(***************************************************************************)
(* The manual sync route.  Its syncGame call is the code of SyncGame and   *)
(* the actions after it, taken here in two steps: the entry with           *)
(* createSyncLog, and the rest of the run up to its return.                *)
(***************************************************************************)
\* The route is called for game g: the query of the games row, 404 when it
\* gives none.
ManualSyncPost(g, ok) ==
  /\ manual.pc = "idle"
  /\ manual' = IF ok THEN [manual EXCEPT !.pc = "found", !.game = games[g]]
               ELSE [manual EXCEPT !.pc = "done", !.status = 404]
  /\ UNCHANGED <<games, game_triggers, trigger_logs, now, brazeConfigured, pass, sends,
                 sync_logs, elements, user_game_stats, alerts, run, client, cron, rows,
                 webhookUrl, limiter>>

\* The route calls syncGame(game, 'manual'): createSyncLog.
ManualSyncGame(ok) ==
  LET row == [game_id |-> manual.game.id, sync_type |-> "manual", status |-> "started",
              users_synced |-> 0, elements_synced |-> 0, error_message |-> NoError,
              started_at |-> now, completed_at |-> NULL]
  IN /\ manual.pc = "found"
     /\ sync_logs' = IF ok THEN Append(sync_logs, row) ELSE sync_logs
     /\ manual' = [manual EXCEPT !.pc = "syncing",
                                 !.logId = IF ok THEN Len(sync_logs) + 1 ELSE NULL]
     /\ UNCHANGED <<games, game_triggers, trigger_logs, now, brazeConfigured, pass, sends,
                    elements, user_game_stats, alerts, run, client, cron, rows, webhookUrl, limiter>>

\* The phase in which a run fails, "none" for a run that succeeds.
FailedPhases == {"none", "metadata", "catalog", "users"}

\* The rest of the route's syncGame call and the response: the phases up
\* to the one that fails (its fetch is refused), each with one batch or
\* page, then the sync_logs update and the alert.
ManualSyncGameReturned(swushGame, failed) ==
  LET g == manual.game.id
      id == manual.logId
      row == syncGameDetailsUpdate(games[g], swushGame, now)
      error == CASE failed = "metadata" -> "Failed to fetch game"
                 [] failed = "catalog" -> "Failed to fetch elements"
                 [] failed = "users" -> "Failed to fetch users"
                 [] OTHER -> NoError
      sent == sendSlackAlert(webhookUrl, "ok", "ok")
  IN /\ manual.pc = "syncing"
     /\ games' = IF failed = "metadata" THEN games ELSE [games EXCEPT ![g] = row]
     /\ sends' = [t \in TriggerIds |->
                    IF failed # "metadata" /\ game_triggers[t].game_id = g
                       /\ row.current_round # games[g].current_round
                    THEN 0 ELSE sends[t]]
     /\ elements' = IF failed \in {"none", "users"} THEN elements \cup {<<g, 1>>} ELSE elements
     /\ user_game_stats' = IF failed = "none" THEN user_game_stats \cup {<<g, 1>>}
                           ELSE user_game_stats
     /\ sync_logs' = updateSyncLog(id, TRUE,
          IF failed = "none"
          THEN [sync_logs[id] EXCEPT !.status = "completed", !.elements_synced = BATCH_SIZE,
                                     !.users_synced = MAX_PAGE_SIZE, !.completed_at = now]
          ELSE [sync_logs[id] EXCEPT !.status = "failed", !.error_message = error,
                                     !.completed_at = now])
     /\ alerts' = IF failed = "none" THEN alerts
                  ELSE Append(alerts, [type |-> "sync_failure", gameKey |-> g,
                                       error |-> error, timestamp |-> now,
                                       lastSuccessfulSync |-> manual.game.last_synced_at,
                                       run |-> 0, delivered |-> sent.sent,
                                       rich |-> IF webhookUrl THEN "ok" ELSE "none",
                                       posts |-> sent.posts, threw |-> sent.threw])
     /\ manual' = [manual EXCEPT !.pc = "done",
                                 !.status = IF failed = "none" THEN 200 ELSE 500]
     /\ UNCHANGED <<game_triggers, trigger_logs, now, brazeConfigured, pass, run, client,
                    cron, rows, webhookUrl, limiter>>

(***************************************************************************)
(* Rows as the admin routes create them: current_round defaults to 1,      *)
(* nothing synced, nothing triggered.                                      *)
(***************************************************************************)
NewGame(g) ==
  [id |-> g, is_active |-> GameActive[g], current_round |-> 1, round_state |-> NoState,
   next_trade_deadline |-> NULL, current_round_start |-> NULL, current_round_end |-> NULL,
   sync_interval_minutes |-> 60, last_synced_at |-> NULL]

NewTrigger(t) ==
  [id |-> t, game_id |-> TriggerConfig[t].game_id, trigger_type |-> TriggerConfig[t].trigger_type,
   is_active |-> TriggerConfig[t].is_active, last_triggered_round |-> NULL]

(***************************************************************************)
(* The environment: the clock, and the metadata phase of a sync run.       *)
(***************************************************************************)
Tick ==
  /\ now + ClockStep <= MaxTicks * ClockStep
  /\ now' = now + ClockStep
  /\ UNCHANGED <<games, game_triggers, trigger_logs, brazeConfigured, pass, sends>>
  /\ UNCHANGED syncVars

\* syncGameDetails with a successful fetch and a successful update.
SyncGameDetails(g, swushGame) ==
  LET row == syncGameDetailsUpdate(games[g], swushGame, now)
  IN /\ games' = [games EXCEPT ![g] = row]
     /\ sends' = [t \in TriggerIds |->
                    IF game_triggers[t].game_id = g /\ row.current_round # games[g].current_round
                    THEN 0 ELSE sends[t]]
     /\ UNCHANGED <<game_triggers, trigger_logs, now, brazeConfigured, pass>>
     /\ UNCHANGED syncVars

(***************************************************************************)
(* processAllTriggers, one action per awaited call.                        *)
(***************************************************************************)
\* The cron route starts a pass: the query of the active games.
ProcessAllTriggers(p, ok) ==
  /\ pass[p].pc = "idle"
  /\ pass' = [pass EXCEPT ![p] =
       IF ok
       THEN [IdlePass EXCEPT !.pc = "game_loop", !.gi = 1,
                             !.games = SelectRows(GameOrder, games, ActiveGames)]
       ELSE [IdlePass EXCEPT !.pc = "done", !.errors = 1]]
  /\ UNCHANGED <<games, game_triggers, trigger_logs, now, brazeConfigured, sends>>
  /\ UNCHANGED syncVars

\* processGameTriggers: the query of the game's active triggers.
ProcessGameTriggers(p, ok) ==
  LET rec == pass[p]
      game == rec.games[rec.gi]
      triggers == SelectRows(TriggerOrder, game_triggers, ActiveTriggersOf(game.id))
  IN /\ rec.pc = "game_loop"
     /\ rec.gi <= Len(rec.games)
     /\ pass' = [pass EXCEPT ![p] =
          IF ~ok \/ triggers = <<>>
          THEN [rec EXCEPT !.gi = @ + 1,
                           !.fetched = IF ok THEN @ \cup {game.id} ELSE @]
          ELSE [rec EXCEPT !.triggers = triggers, !.ti = 1, !.results = <<>>,
                           !.pc = "process", !.fetched = @ \cup {game.id}]]
     /\ UNCHANGED <<games, game_triggers, trigger_logs, now, brazeConfigured, sends>>
     /\ UNCHANGED syncVars

\* processTrigger up to the return of triggerBrazeCampaign.
ProcessTrigger(p, outcome) ==
  LET rec == pass[p]
      game == rec.games[rec.gi]
      trigger == rec.triggers[rec.ti]
      check == checkTrigger(game, trigger, now)
      result == triggerBrazeCampaign(brazeConfigured, outcome)
      ev == [NoEval EXCEPT !.trigger = trigger.id, !.game = game, !.at = now,
                           !.wm = trigger.last_triggered_round,
                           !.should = check.shouldTrigger]
      counted == [rec EXCEPT !.evaluated[trigger.id] = @ + 1]
  IN /\ rec.pc = "process"
     /\ IF ~check.shouldTrigger
        THEN /\ pass' = [pass EXCEPT ![p] =
                  AfterTrigger([counted EXCEPT !.ev = [ev EXCEPT !.done = TRUE]],
                               [success |-> TRUE, triggered |-> FALSE])]
             /\ UNCHANGED sends
        ELSE /\ pass' = [pass EXCEPT ![p] =
                  [counted EXCEPT !.ev = [ev EXCEPT !.result = result], !.pc = "log"]]
             /\ sends' = [sends EXCEPT ![trigger.id] =
                  IF result.sent /\ result.success
                     /\ games[game.id].current_round = game.current_round
                  THEN @ + 1 ELSE @]
     /\ UNCHANGED <<games, game_triggers, trigger_logs, now, brazeConfigured>>
     /\ UNCHANGED syncVars

\* logTrigger: the insert into trigger_logs; a rejected insert is only logged.
LogTrigger(p, ok) ==
  LET rec == pass[p]
      game == rec.games[rec.gi]
      trigger == rec.triggers[rec.ti]
      result == rec.ev.result
      row == [game_id |-> game.id, trigger_id |-> trigger.id,
              trigger_type |-> trigger.trigger_type, round_index |-> RoundIndexArg(game),
              status |-> LogStatus(result), braze_response |-> result.response,
              error_message |-> result.error]
      ev == [rec.ev EXCEPT !.logStatus = row.status, !.logRound = row.round_index,
                           !.logStored = ok]
  IN /\ rec.pc = "log"
     /\ trigger_logs' = IF ok THEN Append(trigger_logs, row) ELSE trigger_logs
     /\ pass' = [pass EXCEPT ![p] =
          IF WatermarkAdvances(result)
          THEN [rec EXCEPT !.ev = ev, !.pc = "update"]
          ELSE AfterTrigger([rec EXCEPT !.ev = [ev EXCEPT !.done = TRUE]],
                            [success |-> result.success, triggered |-> TRUE])]
     /\ UNCHANGED <<games, game_triggers, now, brazeConfigured, sends>>
     /\ UNCHANGED syncVars

\* updateTriggerLastTriggered: a rejected update is only logged.
UpdateTriggerLastTriggered(p, ok) ==
  LET rec == pass[p]
      game == rec.games[rec.gi]
      trigger == rec.triggers[rec.ti]
      ev == [rec.ev EXCEPT !.update = IF ok THEN "stored" ELSE "rejected", !.done = TRUE]
  IN /\ rec.pc = "update"
     /\ game_triggers' = IF ok
          THEN [game_triggers EXCEPT ![trigger.id].last_triggered_round = RoundIndexArg(game)]
          ELSE game_triggers
     /\ pass' = [pass EXCEPT ![p] =
          AfterTrigger([rec EXCEPT !.ev = ev],
                       [success |-> rec.ev.result.success, triggered |-> TRUE])]
     /\ UNCHANGED <<games, trigger_logs, now, brazeConfigured, sends>>
     /\ UNCHANGED syncVars

\* processAllTriggers returns its summary to the cron route.
ReturnSummary(p) ==
  LET rec == pass[p]
  IN /\ rec.pc = "game_loop"
     /\ rec.gi > Len(rec.games)
     /\ pass' = [pass EXCEPT ![p] = [rec EXCEPT !.pc = "done", !.gamesProcessed = Len(rec.games)]]
     /\ UNCHANGED <<games, game_triggers, trigger_logs, now, brazeConfigured, sends>>
     /\ UNCHANGED syncVars

\* No pass has started / no pass other than p is under way.
NoPassStarted == \A q \in Passes : pass[q].pc = "idle"
Alone(p) == \A q \in Passes \ {p} : pass[q].pc \in {"idle", "done"}

(***************************************************************************)
(* Spec: one trigger pass over the configured games and triggers, after    *)
(* the games were synced.                                                  *)
(***************************************************************************)
Init ==
  /\ games = [g \in GameIds |-> NewGame(g)]
  /\ game_triggers = [t \in TriggerIds |-> NewTrigger(t)]
  /\ trigger_logs = <<>>
  /\ now = 0
  /\ brazeConfigured \in BOOLEAN
  /\ pass = [p \in Passes |-> IdlePass]
  /\ sends = [t \in TriggerIds |-> 0]
  /\ SyncIdle
  /\ webhookUrl = TRUE

\* Upstream responses: a round open (its trade closes in 21 h), or a round
\* ended and the next pending (its trade closes in 29 h).
OpenRounds == <<Round(1, "CurrentOpen", 21 * MinutesPerHour)>>
EndedRounds == <<Round(1, "Ended", 0), Round(2, "Pending", 29 * MinutesPerHour)>>

SwushGames == [currentRoundIndex : {0, 2}, rounds : {OpenRounds, EndedRounds}]

SyncedGames == {"g1", "g2"}

PassOutcomes == {"ok", "http_error"}

Next ==
  \/ Tick
  \/ \E g \in SyncedGames, sg \in SwushGames : NoPassStarted /\ SyncGameDetails(g, sg)
  \/ \E ok \in BOOLEAN : ProcessAllTriggers("p1", ok)
  \/ \E ok \in BOOLEAN : ProcessGameTriggers("p1", ok)
  \/ \E o \in PassOutcomes : ProcessTrigger("p1", o)
  \/ \E ok \in BOOLEAN : LogTrigger("p1", ok)
  \/ \E ok \in BOOLEAN : UpdateTriggerLastTriggered("p1", ok)
  \/ ReturnSummary("p1")

Spec == Init /\ [][Next]_vars

(***************************************************************************)
(* A deployment with one active game, g1, and one active trigger.          *)
(***************************************************************************)
OneGame(row) ==
  [g \in GameIds |-> IF g = "g1" THEN row ELSE [NewGame(g) EXCEPT !.is_active = FALSE]]

OneTrigger(t, wm) ==
  [x \in TriggerIds |->
    IF x = t THEN [NewTrigger(x) EXCEPT !.is_active = TRUE, !.last_triggered_round = wm]
    ELSE [NewTrigger(x) EXCEPT !.is_active = FALSE]]

InitOne ==
  /\ games = OneGame(NewGame("g1"))
  /\ game_triggers = OneTrigger("t1", NULL)
  /\ trigger_logs = <<>>
  /\ now = 0
  /\ brazeConfigured \in BOOLEAN
  /\ pass = [p \in Passes |-> IdlePass]
  /\ sends = [t \in TriggerIds |-> 0]
  /\ SyncIdle
  /\ webhookUrl = TRUE

(***************************************************************************)
(* SpecSeq: two cron calls, the second after the first has returned,       *)
(* while g1 is synced at any time.                                         *)
(***************************************************************************)
SeqSwushGames == [currentRoundIndex : {0, 1, 2}, rounds : {OpenRounds, EndedRounds}]

NextSeq ==
  \/ \E sg \in SeqSwushGames : SyncGameDetails("g1", sg)
  \/ \E p \in Passes, ok \in BOOLEAN : Alone(p) /\ ProcessAllTriggers(p, ok)
  \/ \E p \in Passes, ok \in BOOLEAN : ProcessGameTriggers(p, ok)
  \/ \E p \in Passes, o \in HttpOutcomes : ProcessTrigger(p, o)
  \/ \E p \in Passes, ok \in BOOLEAN : LogTrigger(p, ok)
  \/ \E p \in Passes, ok \in BOOLEAN : UpdateTriggerLastTriggered(p, ok)
  \/ \E p \in Passes : ReturnSummary(p)

SpecSeq == InitOne /\ [][NextSeq]_vars

(***************************************************************************)
(* SpecConcurrent: two overlapping cron calls, while g1 is synced at any   *)
(* time; the store accepts every read and write, and the upstream reports  *)
(* rounds from 1 on.                                                       *)
(***************************************************************************)
ConcurrentSwushGames == [currentRoundIndex : {1, 2}, rounds : {OpenRounds, EndedRounds}]

NextConcurrent ==
  \/ \E sg \in ConcurrentSwushGames : SyncGameDetails("g1", sg)
  \/ \E p \in Passes : ProcessAllTriggers(p, TRUE)
  \/ \E p \in Passes : ProcessGameTriggers(p, TRUE)
  \/ \E p \in Passes, o \in PassOutcomes : ProcessTrigger(p, o)
  \/ \E p \in Passes : LogTrigger(p, TRUE)
  \/ \E p \in Passes : UpdateTriggerLastTriggered(p, TRUE)
  \/ \E p \in Passes : ReturnSummary(p)

SpecConcurrent == InitOne /\ [][NextConcurrent]_vars

(***************************************************************************)
(* SpecEval: one evaluation of one trigger of g1, for every trigger type,  *)
(* watermark and games row the metadata phase can have stored.             *)
(***************************************************************************)
EvalNow == 2 * MinutesPerHour

\* Minutes from now to the deadline: -1.5 h to 31 h for the deadline
\* reminder, 21 h for the other trigger types.
DeadlineOffsets(type) ==
  IF type = "deadline_reminder_24h"
  THEN {k * GridStep : k \in -3..62}
  ELSE {21 * MinutesPerHour}

EvalRounds(type) ==
  {<<>>}
  \cup {<<Round(1, "CurrentOpen", EvalNow + d)>> : d \in DeadlineOffsets(type)}
  \cup {<<Round(1, "Ended", 0), Round(2, "Pending", EvalNow + d)>> : d \in DeadlineOffsets(type)}
  \cup (IF type = "deadline_reminder_24h" THEN {}
        ELSE {<<Round(1, "Ended", 0), Round(2, "EndedLastest", 0), Round(3, "Pending", EvalNow + d)>> :
                 d \in DeadlineOffsets(type)}
             \cup {<<Round(1, "EndedLastest", 0)>>}
             \cup {<<Round(1, "Pending", EvalNow + d)>> : d \in DeadlineOffsets(type)})

EvalSwushGames(type) == [currentRoundIndex : 0..MaxRound, rounds : EvalRounds(type)]

EvalGameRows(type) ==
  {NewGame("g1")}
  \cup {syncGameDetailsUpdate(NewGame("g1"), sg, EvalNow) : sg \in EvalSwushGames(type)}

\* A watermark is NULL or a round index processTrigger has stored.
Watermarks == {NULL} \cup 1..MaxRound

EvalTriggers == {"t1", "t2", "t3"}

InitEval ==
  /\ game_triggers \in {OneTrigger(t, wm) : t \in EvalTriggers, wm \in Watermarks}
  /\ games \in {OneGame(row) :
                  row \in UNION {EvalGameRows(game_triggers[t].trigger_type) :
                                   t \in {x \in EvalTriggers : game_triggers[x].is_active}}}
  /\ trigger_logs = <<>>
  /\ now = EvalNow
  /\ brazeConfigured \in BOOLEAN
  /\ pass = [p \in Passes |-> IdlePass]
  /\ sends = [t \in TriggerIds |-> 0]
  /\ SyncIdle
  /\ webhookUrl = TRUE

NextEval ==
  \/ \E ok \in BOOLEAN : ProcessAllTriggers("p1", ok)
  \/ \E ok \in BOOLEAN : ProcessGameTriggers("p1", ok)
  \/ \E o \in HttpOutcomes : ProcessTrigger("p1", o)
  \/ \E ok \in BOOLEAN : LogTrigger("p1", ok)
  \/ \E ok \in BOOLEAN : UpdateTriggerLastTriggered("p1", ok)
  \/ ReturnSummary("p1")

SpecEval == InitEval /\ [][NextEval]_vars

(***************************************************************************)
(* SpecClient: calls of the partner client, one after the other, against   *)
(* every answer the upstream can give to each attempt.                     *)
(***************************************************************************)
\* The trigger engine's rows, with campaign credentials configured.
InitSync == Init /\ brazeConfigured

ClientCalls == {"getUsers", "getGame", "getElements", "verifyApiKey"}

\* A public method of SwushClient is called.
CallClient(call) ==
  /\ client.pc \in {"idle", "returned"}
  /\ client' = StartCall(call, 1)
  /\ UNCHANGED <<games, game_triggers, trigger_logs, now, brazeConfigured, pass, sends,
                 sync_logs, elements, user_game_stats, alerts, run, cron, manual, rows, webhookUrl, limiter>>

NextClient ==
  \/ \E call \in ClientCalls : CallClient(call)
  \/ \E answer \in Answers : Request(answer)
  \/ Backoff

SpecClient == InitSync /\ [][NextClient]_vars

(***************************************************************************)
(* SpecSync: syncGame runs of g1, one after the other, with upstream and   *)
(* store failures in every phase.                                          *)
(***************************************************************************)
SyncRuns == {"r1", "r2"}

SyncAnswers == {JsonAnswer, Answer("http_error", 404), Answer("http_error", 503)}
SyncSwushGames == [currentRoundIndex : {2}, rounds : {OpenRounds}]
ElementCounts == {0, BATCH_SIZE + 1}
SyncPageCounts == {1, 2}
SyncPageUsers == {MAX_PAGE_SIZE}
\* The webhook accepts the Slack payload, or neither POST gets through.
SyncWebhookOutcomes == {"ok", "error"}

NextSync ==
  \/ \E syncType \in {"manual", "scheduled"}, ok \in BOOLEAN :
       run.n < Cardinality(SyncRuns) /\ SyncGame("g1", syncType, ok)
  \/ \E answer \in SyncAnswers : Request(answer)
  \/ Backoff
  \/ \E swushGame \in SyncSwushGames, ok \in BOOLEAN : SyncGameDetailsUpdate(swushGame, ok)
  \/ \E n \in ElementCounts : SyncElementsFetched(n)
  \/ \E ok \in BOOLEAN : UpsertElementsBatch(ok)
  \/ \E pages \in SyncPageCounts, users \in SyncPageUsers, ok \in BOOLEAN :
       SyncUsersFirst(pages, users, ok)
  \/ \E users \in SyncPageUsers, ok \in BOOLEAN : SyncUsersPage(users, ok)
  \/ \E ok \in BOOLEAN : CompleteSync(ok)
  \/ \E ok \in BOOLEAN : FailSync(ok)
  \/ \E rich \in SyncWebhookOutcomes : AlertSyncFailure(rich, "error")
  \/ run.pc \in {"idle", "done"} /\ CallClient("verifyApiKey")

SpecSync == InitSync /\ [][NextSync]_vars

(***************************************************************************)
(* SpecUsers: one scheduled run of g1 whose user phase meets up to         *)
(* MaxPages pages, each fetched or not, each saved or not.                 *)
(***************************************************************************)
MaxPages == 11

UsersAnswers == {JsonAnswer, Answer("http_error", 503)}
PageCounts == {0, 1, 5, MaxPages - 1, MaxPages}

NextUsers ==
  \/ run.n < 1 /\ SyncGame("g1", "scheduled", TRUE)
  \/ \E answer \in UsersAnswers : Request(answer)
  \/ Backoff
  \/ \E swushGame \in SyncSwushGames : SyncGameDetailsUpdate(swushGame, TRUE)
  \/ SyncElementsFetched(BATCH_SIZE)
  \/ UpsertElementsBatch(TRUE)
  \/ \E pages \in PageCounts, ok \in BOOLEAN : SyncUsersFirst(pages, MAX_PAGE_SIZE, ok)
  \/ \E ok \in BOOLEAN : SyncUsersPage(MAX_PAGE_SIZE, ok)
  \/ CompleteSync(TRUE)
  \/ FailSync(TRUE)
  \/ AlertSyncFailure("ok", "ok")

SpecUsers == InitSync /\ [][NextUsers]_vars

(***************************************************************************)
(* SpecDue: one cron call's selection of the games to sync, for every      *)
(* games row of g1 the metadata phase can have stored, while g2 was synced *)
(* ten minutes ago and g3 is inactive and was never synced.                *)
(***************************************************************************)
DueNow == 25 * MinutesPerHour

\* An upstream round with its three times given.
RoundAt(idx, st, start, closes, end) ==
  [index |-> idx, state |-> st, start |-> start, tradeCloses |-> closes, end |-> end]

\* Minutes from now to the round's start, to the trade deadline and to the
\* round's end, and minutes since the last sync.
StartOffsets == {-30, 0, 1, 120, 121}
CloseOffsets == {0, 90, 120, 600}
EndOffsets == {-61, -60, -30, 0, 1}
SyncAges == {10, 29, 30, 40, 59, 60, 1439, 1440}
\* CreateGameSchema: sync_interval_minutes in 5..1440.
SyncIntervals == {5, 60, 1440}

DueRounds ==
  {<<>>}
  \cup {<<RoundAt(1, "CurrentOpen", DueNow + s, DueNow + c, DueNow + e)>> :
          s \in StartOffsets, c \in CloseOffsets, e \in EndOffsets}
  \cup {<<RoundAt(1, st, 0, 0, DueNow + e), RoundAt(2, "Pending", DueNow + s, DueNow + c, DueNow + 600)>> :
          st \in {"Ended", "EndedLastest"}, s \in StartOffsets, c \in CloseOffsets,
          e \in EndOffsets}

DueSwushGames == [currentRoundIndex : {1}, rounds : DueRounds]

DueGameRows ==
  {[NewGame("g1") EXCEPT !.sync_interval_minutes = m] : m \in SyncIntervals}
  \cup {syncGameDetailsUpdate([NewGame("g1") EXCEPT !.sync_interval_minutes = m], sg, DueNow - a) :
          m \in SyncIntervals, sg \in DueSwushGames, a \in SyncAges}

InitDue ==
  /\ games \in {[g \in GameIds |->
                   IF g = "g1" THEN row
                   ELSE IF g = "g2" THEN [NewGame(g) EXCEPT !.last_synced_at = DueNow - 10]
                   ELSE NewGame(g)] : row \in DueGameRows}
  /\ game_triggers = [t \in TriggerIds |-> NewTrigger(t)]
  /\ trigger_logs = <<>>
  /\ now = DueNow
  /\ brazeConfigured = TRUE
  /\ pass = [p \in Passes |-> IdlePass]
  /\ sends = [t \in TriggerIds |-> 0]
  /\ SyncIdle
  /\ webhookUrl = TRUE

NextDue == \E ok \in BOOLEAN : cron.n = 0 /\ CronSyncPost(ok)

SpecDue == InitDue /\ [][NextDue]_vars

(***************************************************************************)
(* SpecCron: one call of the cron sync route with g1 and g2 due, their     *)
(* runs meeting upstream, store and alert failures.                        *)
(***************************************************************************)
CronAnswers == {JsonAnswer, Answer("http_error", 404)}

NextCron ==
  \/ \E ok \in BOOLEAN : cron.n = 0 /\ CronSyncPost(ok)
  \/ \E ok \in BOOLEAN : CronSyncGame(ok)
  \/ CronSyncGameReturned
  \/ \E answer \in CronAnswers : Request(answer)
  \/ \E swushGame \in SyncSwushGames, ok \in BOOLEAN : SyncGameDetailsUpdate(swushGame, ok)
  \/ \E n \in ElementCounts : SyncElementsFetched(n)
  \/ \E ok \in BOOLEAN : UpsertElementsBatch(ok)
  \/ \E pages \in SyncPageCounts, ok \in BOOLEAN : SyncUsersFirst(pages, MAX_PAGE_SIZE, ok)
  \/ \E ok \in BOOLEAN : SyncUsersPage(MAX_PAGE_SIZE, ok)
  \/ \E ok \in BOOLEAN : CompleteSync(ok)
  \/ \E ok \in BOOLEAN : FailSync(ok)
  \/ \E rich \in WebhookOutcomes, generic \in WebhookOutcomes : AlertSyncFailure(rich, generic)

\* The alert webhook is configured or not.
InitCron ==
  /\ games = [g \in GameIds |-> NewGame(g)]
  /\ game_triggers = [t \in TriggerIds |-> NewTrigger(t)]
  /\ trigger_logs = <<>>
  /\ now = 0
  /\ brazeConfigured = TRUE
  /\ pass = [p \in Passes |-> IdlePass]
  /\ sends = [t \in TriggerIds |-> 0]
  /\ SyncIdle
  /\ webhookUrl \in BOOLEAN

SpecCron == InitCron /\ [][NextCron]_vars

(***************************************************************************)
(* SpecOverlap: a cron call and a manual sync of g1 or g2, in any          *)
(* interleaving; the store accepts every write of the cron call's runs.    *)
(***************************************************************************)
ManualGames == {"g1", "g2"}

NextOverlap ==
  \/ cron.n = 0 /\ CronSyncPost(TRUE)
  \/ CronSyncGame(TRUE)
  \/ CronSyncGameReturned
  \/ \E answer \in CronAnswers : Request(answer)
  \/ \E swushGame \in SyncSwushGames : SyncGameDetailsUpdate(swushGame, TRUE)
  \/ SyncElementsFetched(BATCH_SIZE)
  \/ UpsertElementsBatch(TRUE)
  \/ SyncUsersFirst(1, MAX_PAGE_SIZE, TRUE)
  \/ CompleteSync(TRUE)
  \/ FailSync(TRUE)
  \/ AlertSyncFailure("ok", "ok")
  \/ \E g \in ManualGames, ok \in BOOLEAN : ManualSyncPost(g, ok)
  \/ \E ok \in BOOLEAN : ManualSyncGame(ok)
  \/ \E swushGame \in SyncSwushGames, failed \in FailedPhases :
       ManualSyncGameReturned(swushGame, failed)

SpecOverlap == InitSync /\ [][NextOverlap]_vars

(***************************************************************************)
(* SpecUpsert: the catalog and user phases of g1 run twice against the     *)
(* same upstream data, at the same or at a later time, the store accepting *)
(* any of the batches and pages.                                           *)
(***************************************************************************)
\* n upstream elements, numbered from 1, of value v.
UpstreamElements(n, v) == [k \in 1..n |-> [elementId |-> k, value |-> v]]

UpstreamUser(externalId, id, score) == [externalId |-> externalId, id |-> id, score |-> score]

\* No element; two batches of elements; a batch that names element 1 twice.
ElementLists ==
  {<<>>, UpstreamElements(BATCH_SIZE + 1, 7),
   UpstreamElements(1, 7) \o UpstreamElements(2, 8)}

\* No page; two pages, with a user without external id and a user who is
\* on both pages with two scores.
UserPages ==
  {<<>>,
   <<<<UpstreamUser("a", 1, 10), UpstreamUser("none", 2, 20)>>,
     <<UpstreamUser("b", 3, 30), UpstreamUser("a", 1, 40)>>>>,
   <<<<UpstreamUser("none", 2, 20)>>>>}

\* Rows of an earlier sync of g1, against other upstream data.
EarlierRows ==
  {NoRows,
   [NoRows EXCEPT !.elements = {ElementRow("g1", [elementId |-> 1, value |-> 5], 0)},
                  !.user_game_stats = {UserRow("g1", UpstreamUser("a", 1, 5), 0)}]}

InitUpsert ==
  /\ games = [g \in GameIds |-> NewGame(g)]
  /\ game_triggers = [t \in TriggerIds |-> NewTrigger(t)]
  /\ trigger_logs = <<>>
  /\ now = 0
  /\ brazeConfigured = TRUE
  /\ pass = [p \in Passes |-> IdlePass]
  /\ sends = [t \in TriggerIds |-> 0]
  /\ sync_logs = <<>>
  /\ elements = {}
  /\ user_game_stats = {}
  /\ alerts = <<>>
  /\ run = IdleRun
  /\ client = IdleClient
  /\ cron = IdleCron
  /\ manual = IdleManual
  /\ webhookUrl = TRUE
  /\ limiter = IdleLimiter
  /\ rows \in {[r EXCEPT !.upstream.elements = els, !.upstream.users = pages] :
                 r \in EarlierRows, els \in ElementLists, pages \in UserPages}

NextUpsert ==
  \/ Tick
  \/ \E batches \in SUBSET {1, 2}, pages \in SUBSET {1, 2} :
       Len(rows.runs) < Cardinality(SyncRuns) /\ SyncRows("g1", batches, pages)

SpecUpsert == InitUpsert /\ [][NextUpsert]_vars

(***************************************************************************)
(* SpecMeta: the metadata phase of g1 against upstream round lists with up *)
(* to three ended rounds, an open round or none, and up to three pending   *)
(* rounds, in the order of their indices or in the reverse order.          *)
(***************************************************************************)
\* Round idx of a season whose rounds are a day apart.
SeasonRound(idx, st, base) == Round(idx, st, base + idx * 24 * MinutesPerHour)

\* ended rounds that have ended, the last of them flagged EndedLastest,
\* then the open round if any, then pending rounds.
Season(ended, open, pending, base) ==
  [k \in 1..ended |-> SeasonRound(k, IF k = ended THEN "EndedLastest" ELSE "Ended", base)]
  \o (IF open THEN <<SeasonRound(ended + 1, "CurrentOpen", base)>> ELSE <<>>)
  \o [k \in 1..pending |->
        SeasonRound(ended + (IF open THEN 1 ELSE 0) + k, "Pending", base)]

Reverse(seq) == [k \in 1..Len(seq) |-> seq[Len(seq) + 1 - k]]

SeasonBases == {0, MinutesPerHour}

MetaRounds ==
  LET seasons == {Season(e, o, p, b) : e \in 0..3, o \in BOOLEAN, p \in 0..3, b \in SeasonBases}
  IN seasons \cup {Reverse(rounds) : rounds \in seasons}

MetaSwushGames == [currentRoundIndex : {1}, rounds : MetaRounds]

InitMeta ==
  /\ games = OneGame(NewGame("g1"))
  /\ game_triggers = OneTrigger("t1", NULL)
  /\ trigger_logs = <<>>
  /\ now = 0
  /\ brazeConfigured = TRUE
  /\ pass = [p \in Passes |-> IdlePass]
  /\ sends = [t \in TriggerIds |-> 0]
  /\ sync_logs = <<>>
  /\ elements = {}
  /\ user_game_stats = {}
  /\ alerts = <<>>
  /\ run = IdleRun
  /\ client = IdleClient
  /\ cron = IdleCron
  /\ manual = IdleManual
  /\ webhookUrl = TRUE
  /\ limiter = IdleLimiter
  /\ rows \in {[NoRows EXCEPT !.upstream.game = swushGame] : swushGame \in MetaSwushGames}

NextMeta == games["g1"].last_synced_at = NULL /\ SyncGameDetails("g1", rows.upstream.game)

SpecMeta == InitMeta /\ [][NextMeta]_vars

(***************************************************************************)
(* SpecResync: two cron calls, one after the other, for the one active     *)
(* game g1 while time passes; the runs meet a failed fetch in any phase    *)
(* and a rejected games update.  The upstream's round is open with its     *)
(* deadline 21 hours away, or starts in 90 minutes.                        *)
(***************************************************************************)
CronCalls == {"c1", "c2"}

StartingRounds == <<RoundAt(1, "CurrentOpen", 90, 21 * MinutesPerHour, 23 * MinutesPerHour)>>

ResyncSwushGames == [currentRoundIndex : {2}, rounds : {OpenRounds, StartingRounds}]

NextResync ==
  \/ Tick
  \/ cron.n < Cardinality(CronCalls) /\ CronSyncPost(TRUE)
  \/ CronSyncGame(TRUE)
  \/ CronSyncGameReturned
  \/ \E answer \in CronAnswers : Request(answer)
  \/ \E swushGame \in ResyncSwushGames, ok \in BOOLEAN : SyncGameDetailsUpdate(swushGame, ok)
  \/ SyncElementsFetched(BATCH_SIZE)
  \/ UpsertElementsBatch(TRUE)
  \/ SyncUsersFirst(1, MAX_PAGE_SIZE, TRUE)
  \/ CompleteSync(TRUE)
  \/ FailSync(TRUE)
  \/ AlertSyncFailure("ok", "ok")

InitResync == InitOne /\ brazeConfigured

SpecResync == InitResync /\ [][NextResync]_vars

(***************************************************************************)
(* SpecElements: one run of g1 whose catalog phase meets element lists of  *)
(* up to three batches, the store accepting or rejecting each batch.       *)
(***************************************************************************)
CatalogCounts == {0, 1, BATCH_SIZE - 1, BATCH_SIZE, BATCH_SIZE + 1, 2 * BATCH_SIZE,
                  2 * BATCH_SIZE + 50}

NextElements ==
  \/ \E ok \in BOOLEAN : run.n < 1 /\ SyncGame("g1", "scheduled", ok)
  \/ \E answer \in CronAnswers : Request(answer)
  \/ \E swushGame \in SyncSwushGames : SyncGameDetailsUpdate(swushGame, TRUE)
  \/ \E n \in CatalogCounts : SyncElementsFetched(n)
  \/ \E ok \in BOOLEAN : UpsertElementsBatch(ok)
  \/ \E ok \in BOOLEAN : SyncUsersFirst(1, MAX_PAGE_SIZE, ok)
  \/ \E ok \in BOOLEAN : CompleteSync(ok)
  \/ \E ok \in BOOLEAN : FailSync(ok)
  \/ \E rich \in SyncWebhookOutcomes : AlertSyncFailure(rich, "error")

SpecElements == InitSync /\ [][NextElements]_vars

(***************************************************************************)
(* SpecTerminates: one run of g1 with upstream, store and webhook failures *)
(* at every step.  Each step of a run is the continuation of an awaited    *)
(* promise that settles: request aborts its fetch after the timeout, the   *)
(* waits are timers, and the store and webhook calls resolve with a result *)
(* or an error.  Hence the weak fairness of the run's steps.               *)
(***************************************************************************)
TermAnswers ==
  {JsonAnswer, Answer("http_error", 404), Answer("http_error", 429),
   Answer("http_error", 503), Answer("timeout", 0)}
TermPageCounts == {0, 1, 2, 3}

NextTerminates ==
  \/ \E ok \in BOOLEAN : run.n < 1 /\ SyncGame("g1", "scheduled", ok)
  \/ \E answer \in TermAnswers : Request(answer)
  \/ Backoff
  \/ \E swushGame \in SyncSwushGames, ok \in BOOLEAN : SyncGameDetailsUpdate(swushGame, ok)
  \/ \E n \in ElementCounts : SyncElementsFetched(n)
  \/ \E ok \in BOOLEAN : UpsertElementsBatch(ok)
  \/ \E pages \in TermPageCounts, users \in {0, MAX_PAGE_SIZE}, ok \in BOOLEAN :
       SyncUsersFirst(pages, users, ok)
  \/ \E users \in {0, MAX_PAGE_SIZE}, ok \in BOOLEAN : SyncUsersPage(users, ok)
  \/ \E ok \in BOOLEAN : CompleteSync(ok)
  \/ \E ok \in BOOLEAN : FailSync(ok)
  \/ \E rich \in WebhookOutcomes, generic \in WebhookOutcomes : AlertSyncFailure(rich, generic)

SpecTerminates == InitSync /\ [][NextTerminates]_vars /\ WF_vars(NextTerminates)

(***************************************************************************)
(* The admin routes that change is_active.                                 *)
(***************************************************************************)
\* DELETE /api/admin/games/:id, a soft delete; a rejected update answers 500.
DeleteGame(g, ok) ==
  /\ games' = IF ok THEN [games EXCEPT ![g].is_active = FALSE] ELSE games
  /\ UNCHANGED <<game_triggers, trigger_logs, now, brazeConfigured, pass, sends>>
  /\ UNCHANGED syncVars

\* PUT /api/admin/games/:id/triggers with is_active in the body.
PutTrigger(t, is_active, ok) ==
  /\ game_triggers' = IF ok THEN [game_triggers EXCEPT ![t].is_active = is_active]
                      ELSE game_triggers
  /\ UNCHANGED <<games, trigger_logs, now, brazeConfigured, pass, sends>>
  /\ UNCHANGED syncVars

(***************************************************************************)
(* SpecInactive: a trigger pass and a call of the cron sync route's query  *)
(* over games whose rounds make their triggers fire, g3 and t5 inactive    *)
(* from the start, while an admin deactivates g1, g2 and their triggers.   *)
(***************************************************************************)
DeletedGames == {"g1", "g2"}
PutTriggers == {"t1", "t4"}

InitInactive ==
  /\ games \in {[g \in GameIds |->
                   [syncGameDetailsUpdate(NewGame(g), sg, 0) EXCEPT !.last_synced_at = NULL]] :
                 sg \in SwushGames}
  /\ game_triggers = [t \in TriggerIds |-> NewTrigger(t)]
  /\ trigger_logs = <<>>
  /\ now = 0
  /\ brazeConfigured = TRUE
  /\ pass = [p \in Passes |-> IdlePass]
  /\ sends = [t \in TriggerIds |-> 0]
  /\ SyncIdle
  /\ webhookUrl = TRUE

NextInactive ==
  \/ \E g \in DeletedGames, ok \in BOOLEAN : DeleteGame(g, ok)
  \/ \E t \in PutTriggers, is_active \in BOOLEAN, ok \in BOOLEAN : PutTrigger(t, is_active, ok)
  \/ \E ok \in BOOLEAN : cron.n = 0 /\ CronSyncPost(ok)
  \/ \E ok \in BOOLEAN : ProcessAllTriggers("p1", ok)
  \/ \E ok \in BOOLEAN : ProcessGameTriggers("p1", ok)
  \/ \E o \in PassOutcomes : ProcessTrigger("p1", o)
  \/ \E ok \in BOOLEAN : LogTrigger("p1", ok)
  \/ \E ok \in BOOLEAN : UpdateTriggerLastTriggered("p1", ok)
  \/ ReturnSummary("p1")

SpecInactive == InitInactive /\ [][NextInactive]_vars

(***************************************************************************)
(* SpecRateLimit: the calls of checkRateLimit of one instance, for two     *)
(* keys, with limits small enough to be exceeded, windows of one second    *)
(* and one minute, and calls in the same millisecond, half a second or     *)
(* half a minute apart, so that calls fall on a window's resetTime, after  *)
(* it, and past the cleanup interval.                                      *)
(***************************************************************************)
RateLimitConfigs == [limit : {1, 2, 3}, windowSeconds : {1, 60}]
Elapsed == {0, 500, 30000}

InitRateLimit ==
  /\ games = [g \in GameIds |-> NewGame(g)]
  /\ game_triggers = [t \in TriggerIds |-> NewTrigger(t)]
  /\ trigger_logs = <<>>
  /\ now = 0
  /\ brazeConfigured = TRUE
  /\ pass = [p \in Passes |-> IdlePass]
  /\ sends = [t \in TriggerIds |-> 0]
  /\ sync_logs = <<>>
  /\ elements = {}
  /\ user_game_stats = {}
  /\ alerts = <<>>
  /\ run = IdleRun
  /\ client = IdleClient
  /\ cron = IdleCron
  /\ manual = IdleManual
  /\ rows = NoRows
  /\ webhookUrl = TRUE
  /\ limiter \in {[IdleLimiter EXCEPT !.config = c] : c \in RateLimitConfigs}

NextRateLimit ==
  \E key \in RateLimitKeys, d \in Elapsed : CheckRateLimit(key, limiter.now + d)

SpecRateLimit == InitRateLimit /\ [][NextRateLimit]_vars

(***************************************************************************)
(* Properties.                                                             *)
(***************************************************************************)
\* The evaluation a pass has completed last.
Evaluated(p) == pass[p].ev.trigger # "none" /\ pass[p].ev.done

\* C1: across sequential evaluations during which the game's current_round
\* stays R, a trigger's campaign is dispatched successfully (2xx) at most
\* once, whatever the store does with the log insert and the watermark update.
C1_AtMostOncePerRoundSequential ==
  \A t \in TriggerIds : sends[t] <= 1

\* C2: when two passes interleave on the same game and trigger, the campaign
\* is dispatched successfully at most once for the game's current round.
C2_AtMostOncePerRoundConcurrent ==
  \A t \in TriggerIds : ~(sends[t] > 1)

\* The trigger type of the trigger a pass evaluates (or has evaluated last).
EvalType(p) == game_triggers[pass[p].ev.trigger].trigger_type

\* Minutes from the evaluation to the game's deadline, as the evaluation saw them.
MinutesToDeadline(p) == pass[p].ev.game.next_trade_deadline - pass[p].ev.at

\* A trigger_logs row of the evaluation's trigger with this status.
HasLog(p, status) ==
  \E i \in 1..Len(trigger_logs) :
    /\ trigger_logs[i].trigger_id = pass[p].ev.trigger
    /\ trigger_logs[i].game_id = pass[p].ev.game.id
    /\ trigger_logs[i].status = status
    /\ trigger_logs[i].braze_response = pass[p].ev.result.response
    /\ trigger_logs[i].error_message = pass[p].ev.result.error

\* An evaluation whose fire condition held and whose dispatch failed.
FailedDispatch(p) ==
  Evaluated(p) /\ pass[p].ev.should /\ pass[p].ev.result.sent /\ ~pass[p].ev.result.success

\* C3: after an evaluation whose fire condition held and whose dispatch
\* failed, the insert of a `failed` TriggerLog with the error was issued (the
\* row exists when the store accepted it), no watermark update was issued and
\* the watermark is unchanged, so the fire condition still holds for the next
\* evaluation.
C3_FailedDispatchKeepsWatermark ==
  \A p \in Passes : FailedDispatch(p) =>
    /\ pass[p].ev.logStatus = "failed"
    /\ pass[p].ev.result.error # ""
    /\ pass[p].ev.logStored => HasLog(p, "failed")
    /\ pass[p].ev.update = "none"
    /\ game_triggers[pass[p].ev.trigger].last_triggered_round = pass[p].ev.wm
    /\ checkTrigger(pass[p].ev.game, game_triggers[pass[p].ev.trigger], pass[p].ev.at).shouldTrigger

C3_Witness ==
  \E p \in Passes : FailedDispatch(p) /\ pass[p].ev.logStored /\ HasLog(p, "failed")

\* C4: an evaluation whose fire condition is false appends one `skipped`
\* TriggerLog and performs no dispatch.
C4_SkippedEvaluationIsLogged ==
  \A p \in Passes : (Evaluated(p) /\ ~pass[p].ev.should) =>
    /\ ~pass[p].ev.result.sent
    /\ pass[p].ev.logStatus = "skipped"
    /\ Cardinality({i \in 1..Len(trigger_logs) :
                      /\ trigger_logs[i].trigger_id = pass[p].ev.trigger
                      /\ trigger_logs[i].status = "skipped"}) = 1

\* C5: after an evaluation whose dispatch succeeded (and whose store writes
\* were accepted), the `triggered` TriggerLog's round index and the trigger's
\* watermark equal the current_round that the fire condition compared.
C5_WatermarkIsComparedRound ==
  \A p \in Passes :
    (/\ Evaluated(p) /\ pass[p].ev.should
     /\ pass[p].ev.result.sent /\ pass[p].ev.result.success
     /\ pass[p].ev.logStored /\ pass[p].ev.update = "stored") =>
    /\ HasLog(p, "triggered")
    /\ pass[p].ev.logRound = pass[p].ev.game.current_round
    /\ game_triggers[pass[p].ev.trigger].last_triggered_round = pass[p].ev.game.current_round

\* C6: without campaign credentials a dispatch sends no request and returns
\* a no-op success, which is not logged as `triggered`, does not advance the
\* watermark and is not counted in triggersExecuted.
C6_NoopIsNotASend ==
  \A p \in Passes : (~brazeConfigured /\ Evaluated(p) /\ pass[p].ev.should) =>
    /\ ~pass[p].ev.result.sent
    /\ pass[p].ev.result.success
    /\ pass[p].ev.logStatus # "triggered"
    /\ game_triggers[pass[p].ev.trigger].last_triggered_round = pass[p].ev.wm
    /\ pass[p].triggersExecuted = 0

\* C7 (as claimed): the deadline reminder's fire condition holds exactly when
\* the deadline is set, lies 20 to 28 hours ahead and the watermark differs
\* from current_round.
C7_DeadlineWindowExact ==
  \A p \in Passes : (pass[p].ev.trigger # "none" /\ EvalType(p) = "deadline_reminder_24h") =>
    (pass[p].ev.should <=>
       /\ pass[p].ev.game.next_trade_deadline # NULL
       /\ MinutesToDeadline(p) >= 20 * MinutesPerHour
       /\ MinutesToDeadline(p) <= 28 * MinutesPerHour
       /\ pass[p].ev.wm # pass[p].ev.game.current_round)

\* C7 (amended): the deadline reminder's fire condition holds exactly when
\* the deadline is set, lies at least 20 and less than 29 hours ahead (the
\* whole hours until it are 20..28) and the watermark differs from
\* current_round.
C7_DeadlineWindowWholeHours ==
  \A p \in Passes : (pass[p].ev.trigger # "none" /\ EvalType(p) = "deadline_reminder_24h") =>
    (pass[p].ev.should <=>
       /\ pass[p].ev.game.next_trade_deadline # NULL
       /\ MinutesToDeadline(p) >= 20 * MinutesPerHour
       /\ MinutesToDeadline(p) < 29 * MinutesPerHour
       /\ pass[p].ev.wm # pass[p].ev.game.current_round)

C7_Witness ==
  \E p \in Passes :
    /\ pass[p].ev.trigger # "none" /\ EvalType(p) = "deadline_reminder_24h"
    /\ pass[p].ev.should
    /\ MinutesToDeadline(p) > 28 * MinutesPerHour

\* C8: the round_started fire condition holds exactly when round_state is
\* CurrentOpen and the watermark differs from current_round; an evaluation
\* whose condition is false dispatches nothing, one whose condition holds
\* calls the dispatcher.
C8_RoundStartedCondition ==
  \A p \in Passes : (pass[p].ev.trigger # "none" /\ EvalType(p) = "round_started") =>
    /\ pass[p].ev.should <=>
         (/\ pass[p].ev.game.round_state = "CurrentOpen"
          /\ pass[p].ev.wm # pass[p].ev.game.current_round)
    /\ ~pass[p].ev.should => (pass[p].ev.result = NoResult /\ pass[p].ev.update = "none")
    /\ pass[p].ev.should => pass[p].ev.result # NoResult

C8_Witness ==
  \E p \in Passes :
    /\ Evaluated(p) /\ EvalType(p) = "round_started"
    /\ pass[p].ev.game.current_round = 6 /\ pass[p].ev.wm = 5
    /\ pass[p].ev.should /\ pass[p].ev.result.sent /\ pass[p].ev.result.success

\* C9 (as claimed): the round_ended fire condition holds exactly when
\* round_state is Ended or EndedLatest and the watermark differs from
\* current_round.
C9_RoundEndedLatest ==
  \A p \in Passes : (pass[p].ev.trigger # "none" /\ EvalType(p) = "round_ended") =>
    (pass[p].ev.should <=>
       /\ pass[p].ev.game.round_state \in {"Ended", "EndedLatest"}
       /\ pass[p].ev.wm # pass[p].ev.game.current_round)

\* C9 (amended): the round_ended fire condition holds exactly when
\* round_state is Ended or EndedLastest (the upstream's and the code's
\* spelling) and the watermark differs from current_round.
C9_RoundEndedLastest ==
  \A p \in Passes : (pass[p].ev.trigger # "none" /\ EvalType(p) = "round_ended") =>
    (pass[p].ev.should <=>
       /\ pass[p].ev.game.round_state \in {"Ended", "EndedLastest"}
       /\ pass[p].ev.wm # pass[p].ev.game.current_round)

C9_Witness ==
  \E p \in Passes :
    /\ Evaluated(p) /\ EvalType(p) = "round_ended"
    /\ pass[p].ev.game.round_state = "EndedLastest"
    /\ pass[p].ev.should

\* The games a pass has read from the store.
PassGames(p) == {pass[p].games[i].id : i \in 1..Len(pass[p].games)}

\* C10 (as claimed): when a pass returns, every active trigger of every
\* active game has been evaluated exactly once.
C10_EveryActiveTriggerEvaluated ==
  \A p \in Passes : pass[p].pc = "done" =>
    \A t \in TriggerIds :
      (game_triggers[t].is_active /\ games[game_triggers[t].game_id].is_active) =>
        pass[p].evaluated[t] = 1

\* C10 (amended): no trigger is evaluated twice in a pass, and when a pass
\* returns, it has evaluated exactly once every active trigger of every
\* active game it has read whose trigger query succeeded, and no other
\* trigger, whatever the dispatches and the log and watermark writes did.
C10_EveryFetchedTriggerEvaluated ==
  \A p \in Passes :
    /\ \A t \in TriggerIds : pass[p].evaluated[t] <= 1
    /\ pass[p].pc = "done" =>
         \A t \in TriggerIds :
           pass[p].evaluated[t] =
             IF /\ game_triggers[t].is_active
                /\ game_triggers[t].game_id \in PassGames(p) \cap pass[p].fetched
             THEN 1 ELSE 0

C10_Witness ==
  \E p \in Passes :
    /\ pass[p].pc = "done"
    /\ pass[p].errors >= 1
    /\ pass[p].fetched = {"g1", "g2"}
    /\ \A t \in {"t1", "t2", "t3", "t4"} : pass[p].evaluated[t] = 1

\* C11: a trigger's last_triggered_round changes only in the step of an
\* evaluation whose fire condition held and whose dispatch returned success
\* (the watermark update of processTrigger); every other step, skipped
\* evaluations, failed dispatches and syncs included, leaves it unchanged.
C11_WatermarkChangesOnlyOnSuccess ==
  [][\A t \in TriggerIds :
       game_triggers'[t].last_triggered_round # game_triggers[t].last_triggered_round =>
         \E p \in Passes :
           /\ pass[p].pc = "update"
           /\ pass[p].ev.trigger = t
           /\ pass[p].ev.should
           /\ pass[p].ev.result.success
           /\ pass'[p].ev.update = "stored"
           /\ game_triggers'[t].last_triggered_round = RoundIndexArg(pass[p].ev.game)]_vars

C11_Witness ==
  \E p \in Passes :
    /\ Evaluated(p) /\ pass[p].ev.update = "stored"
    /\ game_triggers[pass[p].ev.trigger].last_triggered_round # pass[p].ev.wm
    /\ games[pass[p].ev.game.id].last_synced_at # NULL

\* The answers the claims call Transient: request timeout, transport
\* failure, HTTP 408, HTTP 429 and any 5xx.
TransientAnswer(a) ==
  \/ a.kind \in {"timeout", "network_error"}
  \/ a.kind = "http_error" /\ (a.status \in {408, 429} \/ (a.status >= 500 /\ a.status <= 599))

\* The attempts of the getUsers call under way (or returned last).
Attempts == IF client.call = "getUsers" THEN 1..Len(client.answers) ELSE {}

\* Attempt k failed.
FailedAttempt(k) == ~IsSuccess(request(client.answers[k]))

\* Attempt k was followed by a wait and another attempt (or is about to be).
Retried(k) ==
  Len(client.answers) > k \/ (Len(client.answers) = k /\ client.pc \in {"wait", "request"})

\* C12: a getUsers call makes at most 4 HTTP attempts; no attempt follows a
\* successful one, whose response is returned; when every attempt fails
\* transiently the call returns the last failure after exactly 4 attempts;
\* three 503 followed by a success return success.
C12_AtMostFourAttempts ==
  client.call = "getUsers" =>
    /\ Len(client.answers) <= 4
    /\ \A k \in Attempts : k < Len(client.answers) => FailedAttempt(k)
    /\ client.pc = "returned" =>
         /\ client.response = request(client.answers[Len(client.answers)])
         /\ (\A k \in Attempts : TransientAnswer(client.answers[k])) =>
              (Len(client.answers) = 4 /\ ~IsSuccess(client.response))
    /\ (client.pc = "returned" /\ Len(client.answers) < 4) =>
         (IsSuccess(client.response) \/ ~TransientAnswer(client.answers[Len(client.answers)]))

C12_Witness ==
  /\ client.call = "getUsers" /\ client.pc = "returned"
  /\ client.answers = <<Answer("http_error", 503), Answer("http_error", 503),
                        Answer("http_error", 503), JsonAnswer>>
  /\ IsSuccess(client.response)

\* C13: in a getUsers call the wait after failed attempt k is 1000 * 2^(k-1)
\* ms (1 s, 2 s, 4 s); there is no wait after a successful attempt, after the
\* attempt that ends the call, or after the 4th attempt.
C13_BackoffDelays ==
  client.call = "getUsers" =>
    /\ Len(client.delays) <= 3
    /\ \A k \in 1..Len(client.delays) :
         /\ client.delays[k] = 1000 * 2 ^ (k - 1)
         /\ FailedAttempt(k)
    /\ client.pc \in {"wait", "returned"} => Len(client.delays) = Len(client.answers) - 1
    /\ client.pc = "request" => Len(client.delays) = Len(client.answers)
    /\ client.pc = "wait" => (Len(client.answers) <= 3 /\ FailedAttempt(Len(client.answers)))

C13_Witness ==
  /\ client.call = "getUsers" /\ client.pc = "returned"
  /\ client.delays = <<1000, 2000, 4000>>
  /\ ~IsSuccess(client.response)

\* C14 (as claimed): a failed attempt of a getUsers call (with attempts
\* left) is retried iff its failure is Transient; any other failure ends the
\* call at that attempt with its error and no wait.
C14_RetriedIffTransient ==
  \A k \in Attempts : (k <= 3 /\ FailedAttempt(k)) =>
    /\ Retried(k) <=> TransientAnswer(client.answers[k])
    /\ ~Retried(k) => (/\ client.pc = "returned"
                       /\ client.response = request(client.answers[k])
                       /\ Len(client.delays) = k - 1)

\* C14 (amended): a failed attempt of a getUsers call (with attempts left)
\* is retried iff its response is not a 4xx other than 408 and 429: besides
\* the Transient failures, a 2xx whose body is not JSON or is an empty JSON
\* value is retried too; a 4xx other than 408 and 429 ends the call at that
\* attempt with its error and no wait.
C14_RetriedUnlessPermanent ==
  \A k \in Attempts : (k <= 3 /\ FailedAttempt(k)) =>
    LET status == request(client.answers[k]).status
        permanent == status >= 400 /\ status <= 499 /\ status \notin {408, 429}
    IN /\ Retried(k) <=> ~permanent
       /\ TransientAnswer(client.answers[k]) => Retried(k)
       /\ ~Retried(k) => (/\ client.pc = "returned"
                          /\ client.response = request(client.answers[k])
                          /\ client.response.error = HttpErrorText(status)
                          /\ Len(client.delays) = k - 1)

C14_Witness ==
  /\ client.call = "getUsers" /\ client.pc = "returned"
  /\ Len(client.answers) = 2
  /\ client.answers[1].kind = "empty_json"
  /\ client.answers[2] = Answer("http_error", 404)
  /\ client.delays = <<1000>>

\* C15: a getGame, getElements or verifyApiKey call issues one HTTP request
\* whatever it meets, waits for nothing and returns that request's response
\* (verifyApiKey: whether it was the answer to a valid key); a failed element
\* fetch, a 404 included, fails the run at once: the catalog phase writes no
\* row, the user phase is not entered, and the run returns the error.
C15_SingleRequestCalls ==
  /\ [](client.call \in {"getGame", "getElements", "verifyApiKey"} =>
         /\ Len(client.answers) <= 1
         /\ client.delays = <<>>
         /\ client.pc # "wait"
         /\ client.pc = "returned" =>
              /\ Len(client.answers) = 1
              /\ client.response = request(client.answers[1])
              /\ verifyApiKey(client.response) = (client.answers[1] = JsonAnswer))
  /\ [][(run.pc = "elements" /\ client.pc = "returned" /\ IsFailure(client.response)) =>
          /\ run'.pc = "catch"
          /\ run'.error = ErrorOr(client.response, "Failed to fetch elements")
          /\ run'.started = <<"metadata", "catalog">>
          /\ UNCHANGED <<elements, user_game_stats>>]_vars
  /\ []((run.pc = "done" /\ run.error # NoError) =>
          (~run.result.success /\ run.result.error = run.error))

C15_Witness ==
  /\ run.pc = "done"
  /\ run.started = <<"metadata", "catalog">>
  /\ run.result.returned /\ ~run.result.success
  /\ run.result.error = HttpErrorText(404)
  /\ elements = {}

\* The phases of a run, in order.
Phases == <<"metadata", "catalog", "users">>

\* The run is in the given positions.
RunAt(pcs) == run.pc \in pcs

\* C16: a run enters the metadata, catalog and user phases in that order; it
\* enters the catalog phase only in the step in which the metadata fetch and
\* update succeeded and the user phase only out of a catalog phase whose
\* fetch succeeded; upstream calls belong to the phase under way; once a
\* phase has failed, the run enters no phase, calls the upstream no more and
\* writes no games, elements or user_game_stats row.
C16_PhasesInOrder ==
  /\ [](/\ run.started = SubSeq(Phases, 1, Len(run.started))
        /\ RunAt({"details"}) => run.started = <<"metadata">>
        /\ RunAt({"elements", "elements_upsert"}) => run.started = <<"metadata", "catalog">>
        /\ RunAt({"users_first", "users_page"}) => run.started = Phases
        /\ (client.call = "getGame" /\ ~RunAt({"idle", "done"})) => RunAt({"details"})
        /\ client.call = "getElements" => RunAt({"elements"})
        /\ client.call = "getUsers" => RunAt({"users_first", "users_page"})
        /\ run.error # NoError => RunAt({"catch", "alert", "done"}))
  /\ [][(run'.n = run.n /\ Len(run'.started) = 2 /\ Len(run.started) = 1) =>
          /\ RunAt({"details"}) /\ IsSuccess(client.response)
          /\ games'[run.game.id].last_synced_at = now
          /\ run'.error = NoError]_vars
  /\ [][(run'.n = run.n /\ Len(run'.started) = 3 /\ Len(run.started) = 2) =>
          /\ RunAt({"elements", "elements_upsert"})
          /\ RunAt({"elements"}) => IsSuccess(client.response)
          /\ run'.error = NoError]_vars
  /\ [][(run.error # NoError /\ run'.n = run.n) =>
          /\ run'.started = run.started
          /\ UNCHANGED <<games, elements, user_game_stats>>
          /\ (client' = client \/ ~RunAt({"catch", "alert"}))]_vars

C16_Witness ==
  /\ run.pc = "done" /\ ~run.result.success
  /\ run.started = <<"metadata", "catalog">>
  /\ run.error = HttpErrorText(503)
  /\ games[run.game.id].last_synced_at # NULL
  /\ user_game_stats = {}
  /\ Len(alerts) = 1

\* C17: every run creates exactly one SyncLog row, and when the run has
\* returned that row is `completed` with the final counts iff the run
\* succeeded and `failed` with the error message iff it failed.
C17_EveryRunHasFinalizedLog ==
  run.n >= 1 =>
    /\ Len(sync_logs) = run.n
    /\ run.logId = Len(sync_logs)
    /\ run.pc # "done" => sync_logs[run.logId].status = "started"
    /\ run.pc = "done" =>
         LET row == sync_logs[run.logId]
         IN IF run.result.success
            THEN /\ row.status = "completed"
                 /\ row.elements_synced = run.result.elementsSynced
                 /\ row.users_synced = run.result.usersSynced
            ELSE /\ row.status = "failed"
                 /\ row.error_message = run.result.error

\* The alerts sent for the run under way (or returned last).
RunAlerts == {i \in 1..Len(alerts) : alerts[i].run = run.n}

\* C18: a run that has returned a failure has finalized its SyncLog row as
\* failed with the error and has called the alert service exactly once, with
\* the game, the error and the last_synced_at the run was given; a run that
\* has returned success has sent no alert.
C18_FailedRunLoggedAndAlerted ==
  run.pc = "done" =>
    IF run.result.success
    THEN RunAlerts = {}
    ELSE /\ run.result.returned /\ run.result.error # NoError
         /\ run.logId # NULL
         /\ sync_logs[run.logId].status = "failed"
         /\ sync_logs[run.logId].error_message = run.result.error
         /\ Cardinality(RunAlerts) = 1
         /\ \A i \in RunAlerts :
              /\ alerts[i].gameKey = run.game.id
              /\ alerts[i].error = run.result.error
              /\ alerts[i].lastSuccessfulSync = run.game.last_synced_at

\* The user phase of the run has ended (the run may have gone on).
UsersEnded == Len(run.started) = 3 /\ RunAt({"complete", "catch", "alert", "done"})

\* The pages the user phase has dealt with.
PagesDone ==
  IF Len(run.started) < 3 \/ run.page = 0 THEN {}
  ELSE IF RunAt({"users_page"}) THEN 1..(run.page - 1)
  ELSE 1..run.page

\* The pages in failedPages.
FailedPageSet == {run.failedPages[i] : i \in 1..Len(run.failedPages)}

\* C19 (as claimed): the user phase ends failed iff more than 10% of the
\* pages are in failedPages.
C19_FailedIffOverTenPercent ==
  UsersEnded => (run.error # NoError <=> 10 * Len(run.failedPages) > run.totalPages)

\* C19 (amended): the user phase ends failed iff its first page could not be
\* fetched, or more than 10% (strictly) of totalPages are in failedPages,
\* which holds page 1 when it could not be saved and every later page that
\* could not be fetched or saved: 1 of 11 succeeds, 2 of 11 fail, 1 of 10
\* succeeds.
C19_FailedIffFirstFetchOrOverTenPercent ==
  /\ FailedPageSet = {q \in PagesDone : <<run.game.id, q>> \notin user_game_stats}
  /\ Len(run.failedPages) = Cardinality(FailedPageSet)
  /\ UsersEnded =>
       /\ run.error # NoError <=>
            (run.page = 0 \/ 10 * Len(run.failedPages) > run.totalPages)
       /\ (run.totalPages = 11 /\ Len(run.failedPages) = 1) => run.error = NoError
       /\ (run.totalPages = 11 /\ Len(run.failedPages) = 2) => run.error # NoError
       /\ (run.totalPages = 10 /\ Len(run.failedPages) = 1) => run.error = NoError

C19_Witness ==
  /\ run.pc = "done" /\ run.result.success
  /\ run.totalPages = 11
  /\ run.failedPages = <<4>>
  /\ run.result.usersSynced = 100

\* The user phase holds the response of a page that was fetched.
PageFetched ==
  RunAt({"users_first", "users_page"}) /\ client.pc = "returned" /\ IsSuccess(client.response)

\* The page whose response the user phase holds.
PageHeld == IF RunAt({"users_first"}) THEN 1 ELSE run.page

\* C20 (as claimed): the rows of a fetched page are in the store from the
\* step that deals with the page, before the next page is requested, and
\* rows are never removed.
C20_FetchedPagesStored ==
  [][/\ user_game_stats \subseteq user_game_stats'
     /\ PageFetched => <<run.game.id, PageHeld>> \in user_game_stats']_vars

\* C20 (amended): the step that deals with a fetched page upserts it before
\* the next page is requested: its rows are in the store unless the store
\* rejected the upsert, in which case the page is in failedPages; rows are
\* never removed, so at every point, and whether the phase ends failed or
\* succeeded, the rows of every page dealt with that is not in failedPages
\* are in the store.
C20_SavedPagesStay ==
  /\ [][/\ user_game_stats \subseteq user_game_stats'
        /\ PageFetched =>
             /\ (<<run.game.id, PageHeld>> \in user_game_stats'
                   <=> PageHeld \notin {run'.failedPages[i] : i \in 1..Len(run'.failedPages)})
             /\ client'.page > PageHeld \/ client' = IdleClient]_vars
  /\ [](\A q \in PagesDone \ FailedPageSet : <<run.game.id, q>> \in user_game_stats)
  /\ [](client.call = "getUsers" => PagesDone = 1..(client.page - 1))

C20_Witness ==
  /\ run.pc = "done" /\ ~run.result.success
  /\ run.totalPages = 5
  /\ run.failedPages = <<3>>
  /\ user_game_stats = {<<"g1", 1>>, <<"g1", 2>>, <<"g1", 4>>, <<"g1", 5>>}

(***************************************************************************)
(* The schedule.                                                           *)
(***************************************************************************)
\* The games row the cron call examined, and the minutes since its sync.
CronAge(g) == cron.at - games[g].last_synced_at

C22_CriticalIffWindow ==
  \A g \in cron.examined :
    g \in cron.critical <=>
      \/ /\ games[g].current_round_start # NULL
         /\ games[g].current_round_start - cron.at > 0
         /\ games[g].current_round_start - cron.at <= 2 * MinutesPerHour
      \/ /\ games[g].next_trade_deadline # NULL
         /\ games[g].next_trade_deadline - cron.at > 0
         /\ games[g].next_trade_deadline - cron.at <= 2 * MinutesPerHour
      \/ /\ games[g].current_round_end # NULL
         /\ cron.at - games[g].current_round_end >= 0
         /\ cron.at - games[g].current_round_end <= MinutesPerHour

\* C23: a game in a critical period whose last sync is sync_interval_minutes
\* old or older is due.
C23_CriticalNeverLooser ==
  \A g \in cron.critical :
    CronAge(g) >= games[g].sync_interval_minutes =>
      \E k \in 1..Len(cron.gamesDue) : cron.gamesDue[k].id = g

(***************************************************************************)
(* The cron sync route.                                                    *)
(***************************************************************************)
\* The syncGame results the cron call has tallied as successes.
CronSuccesses == {k \in 1..Len(cron.results) : cron.results[k].success}

\* C24: every syncGame call of a cron call returns a result; the k-th run
\* of the call is the run of the k-th due game, whatever the earlier runs
\* returned; and the route answers 200 with gamesChecked the number of due
\* games, each run once, and gamesSynced the number of successful runs.
C24_EveryDueGameRunOnce ==
  /\ run.pc = "done" => run.result.returned
  /\ cron.pc = "loop" => run.n = cron.i /\ cron.i < Len(cron.gamesDue)
  /\ cron.pc = "awaiting" => run.n = cron.i + 1 /\ run.game = cron.gamesDue[cron.i + 1]
  /\ Len(cron.results) = cron.i
  /\ \A k \in 1..Len(cron.results) : cron.results[k].game = cron.gamesDue[k].id
  /\ cron.response.returned =>
       /\ cron.response.status = 200
       /\ cron.response.gamesChecked = Len(cron.gamesDue)
       /\ run.n = Len(cron.gamesDue)
       /\ cron.i = Len(cron.gamesDue)
       /\ cron.response.gamesSynced = Cardinality(CronSuccesses)
       /\ cron.response.gamesSynced <= cron.response.gamesChecked

\* The first due game's run failed, the second game's run succeeded, and
\* the summary counts two games checked and one synced.
C24_Witness ==
  /\ cron.response.returned
  /\ Len(cron.results) = 2
  /\ ~cron.results[1].success
  /\ cron.results[2].success
  /\ cron.response.gamesChecked = 2
  /\ cron.response.gamesSynced = 1

(***************************************************************************)
(* The alert service.                                                      *)
(***************************************************************************)
\* C26: no alertSyncFailure call throws; without a webhook it makes no
\* POST; with one it posts the Slack payload first and the plain payload
\* second exactly when the first POST was rejected or threw, and nothing
\* more; and the run that called it returns its failure.
C26_AlertBestEffort ==
  /\ run.pc # "thrown"
  /\ \A k \in 1..Len(alerts) :
       LET a == alerts[k]
       IN /\ ~a.threw
          /\ ~webhookUrl => a.posts = <<>>
          /\ webhookUrl =>
               /\ a.posts \in {<<"slack">>, <<"slack", "generic">>}
               /\ a.posts = <<"slack", "generic">> <=> a.rich \in {"rejected", "error"}

\* The Slack POST threw, the plain payload was posted and refused as well,
\* and the run returned its failure to the cron call.
C26_Witness ==
  /\ webhookUrl
  /\ run.pc = "done"
  /\ run.result.returned /\ ~run.result.success
  /\ Len(alerts) > 0
  /\ alerts[Len(alerts)].run = run.n
  /\ alerts[Len(alerts)].rich = "error"
  /\ alerts[Len(alerts)].posts = <<"slack", "generic">>
  /\ ~alerts[Len(alerts)].delivered

(***************************************************************************)
(* Overlapping runs.                                                       *)
(***************************************************************************)
\* C25: the cron call's run and the manual route's run are never in
\* progress for the same game at the same time.
C25_AtMostOneRunPerGame ==
  ~ /\ run.pc \notin {"idle", "done"}
    /\ manual.pc = "syncing"
    /\ run.game.id = manual.game.id

(***************************************************************************)
(* Idempotent upserts.                                                     *)
(***************************************************************************)
\* No two rows of the table agree on the columns of key.
UniqueOn(table, key) ==
  Cardinality({KeyOf(r, key) : r \in table}) = Cardinality(table)

\* C27: the elements table never holds two rows with one (game_id,
\* element_id), nor user_game_stats two rows with one (external_id,
\* game_id); and a second run against the same upstream data, in which the
\* store accepts the writes it accepted in the first, leaves the rows of
\* the first run, timestamps apart.
C27_SecondRunSameRows ==
  /\ UniqueOn(rows.elements, {"game_id", "element_id"})
  /\ UniqueOn(rows.user_game_stats, {"external_id", "game_id"})
  /\ (Len(rows.runs) = 2
      /\ rows.runs[1].batches = rows.runs[2].batches
      /\ rows.runs[1].pages = rows.runs[2].pages) =>
       /\ rows.runs[2].elements = rows.runs[1].elements
       /\ rows.runs[2].user_game_stats = rows.runs[1].user_game_stats

\* Two runs, the second later than the first, both with every write
\* accepted, have rewritten the 101 elements and the two users.
C27_Witness ==
  /\ Len(rows.runs) = 2
  /\ rows.runs[1].batches = {1, 2} /\ rows.runs[2].batches = {1, 2}
  /\ rows.runs[1].pages = {1, 2} /\ rows.runs[2].pages = {1, 2}
  /\ Cardinality(rows.elements) = BATCH_SIZE + 1
  /\ Cardinality(rows.user_game_stats) = 2
  /\ \A r \in rows.elements : r.updated_at > 0
  /\ \A r \in rows.user_game_stats : r.synced_at > 0

(***************************************************************************)
(* The metadata phase's choice of rounds.                                  *)
(***************************************************************************)
\* The positions in the upstream's round list of the rounds in a state of S.
RoundsIn(S) ==
  {i \in 1..Len(rows.upstream.game.rounds) : rows.upstream.game.rounds[i].state \in S}

\* C28: after a metadata phase against a round list without an open round,
\* the stored deadline and round start are those of the pending round that
\* starts first, and the stored round end and round_state are those of the
\* ended round that ended last.
C28_NearestRounds ==
  LET rounds == rows.upstream.game.rounds
      pending == RoundsIn({"Pending"})
      ended == RoundsIn({"Ended", "EndedLastest"})
  IN (games["g1"].last_synced_at # NULL /\ RoundsIn({"CurrentOpen"}) = {}) =>
       /\ \A i \in pending :
            (\A j \in pending : rounds[i].start <= rounds[j].start) =>
              /\ games["g1"].next_trade_deadline = rounds[i].tradeCloses
              /\ games["g1"].current_round_start = rounds[i].start
       /\ \A i \in ended :
            (\A j \in ended : rounds[i].end >= rounds[j].end) =>
              /\ games["g1"].current_round_end = rounds[i].end
              /\ games["g1"].round_state = rounds[i].state

(***************************************************************************)
(* The delay between user pages.                                           *)
(***************************************************************************)
\* C29: every getUsers call for a page after the first is made 100 ms or
\* more after the previous getUsers call ended.
C29_DelayBetweenPages ==
  (run.pc = "users_page" /\ client.call = "getUsers" /\ client.pc # "idle") =>
    run.waited >= 100

(***************************************************************************)
(* last_synced_at and the schedule.                                        *)
(***************************************************************************)
\* The run under way, or the last one, has completed its metadata phase.
MetadataDone == \E k \in 1..Len(run.started) : run.started[k] = "catalog"

\* C30: a run that has not completed its metadata phase has left the games
\* row as it was given it; a run that has completed it has set
\* last_synced_at to a time in the run, whatever the run returns; and a
\* cron call returns a synced game only when 30 minutes (in a critical
\* period) or sync_interval_minutes (otherwise) have passed since that time.
C30_LastSyncedAtFollowsMetadata ==
  /\ (run.pc # "idle" /\ ~MetadataDone) => games[run.game.id] = run.game
  /\ (run.pc # "idle" /\ MetadataDone) =>
       /\ games[run.game.id].last_synced_at # NULL
       /\ games[run.game.id].last_synced_at >= sync_logs[run.logId].started_at
       /\ games[run.game.id].last_synced_at <= now
  /\ \A k \in 1..Len(cron.gamesDue) :
       LET game == cron.gamesDue[k]
       IN \/ game.last_synced_at = NULL
          \/ cron.at - game.last_synced_at >=
               (IF isInCriticalPeriod(game, cron.at) THEN 30 ELSE game.sync_interval_minutes)

\* A run that failed after its metadata phase has advanced last_synced_at,
\* and the cron call made 30 minutes later, outside a critical period,
\* does not return the game.
C30_Witness ==
  /\ cron.n = 2
  /\ cron.fetched
  /\ cron.gamesDue = <<>>
  /\ run.n = 1
  /\ run.pc = "done" /\ ~run.result.success
  /\ MetadataDone
  /\ ~isInCriticalPeriod(games["g1"], cron.at)
  /\ cron.at - games["g1"].last_synced_at >= 30

(***************************************************************************)
(* The catalog phase's batches.                                            *)
(***************************************************************************)
\* The sum of the sizes of the run's batch upserts numbered in S.
RECURSIVE UpsertedSize(_)
UpsertedSize(S) ==
  IF S = {} THEN 0
  ELSE LET k == CHOOSE x \in S : TRUE
       IN run.upserts[k].size + UpsertedSize(S \ {k})

\* The catalog phase's loop is over.
CatalogDone == Len(run.upserts) > 0 /\ run.pc # "elements_upsert"

\* C31: the k-th upsert of a catalog phase is batch k, of at most 100
\* elements and of exactly 100 unless it is the last; elementsSynced is the
\* number of elements in the accepted batches; and once the loop is over,
\* whatever batches were rejected, every element was in one batch, the user
\* phase was entered, and a run that succeeds returns that elementsSynced.
C31_BatchesOfHundred ==
  LET all == 1..Len(run.upserts)
  IN /\ \A k \in all :
          /\ run.upserts[k].batch = k
          /\ run.upserts[k].size >= 1
          /\ run.upserts[k].size <= 100
          /\ k < Len(run.upserts) => run.upserts[k].size = 100
     /\ run.elementsSynced = UpsertedSize({k \in all : run.upserts[k].ok})
     /\ CatalogDone =>
          /\ UpsertedSize(all) = run.elementsTotal
          /\ \E k \in 1..Len(run.started) : run.started[k] = "users"
          /\ run.error # "Failed to upsert elements batch"
     /\ (run.result.returned /\ run.result.success) =>
          run.result.elementsSynced = run.elementsSynced

\* Of three batches for 250 elements the second was rejected, the third
\* was upserted all the same, and the run succeeded with 150 elements.
C31_Witness ==
  /\ run.elementsTotal = 250
  /\ Len(run.upserts) = 3
  /\ run.upserts[1].ok /\ ~run.upserts[2].ok /\ run.upserts[3].ok
  /\ run.upserts[3].size = 50
  /\ <<"g1", 3>> \in elements
  /\ <<"g1", 2>> \notin elements
  /\ run.result.returned /\ run.result.success
  /\ run.result.elementsSynced = 150

(***************************************************************************)
(* The order of the user phase's pages.                                    *)
(***************************************************************************)
\* The pages of the run's game whose rows are in the store.
PersistedPages == {p \in 1..MaxPages + 1 : <<run.game.id, p>> \in user_game_stats}

\* The getUsers calls so far are those of pages 1..k, once each, in that
\* order, and k is within the page count of page 1's response.
RequestedInOrder ==
  /\ \A k \in 1..Len(run.requested) : run.requested[k] = k
  /\ Len(run.requested) > 1 => Len(run.requested) <= run.totalPages
  /\ (Len(run.requested) > 0 /\ client.pc # "idle") =>
       client.call = "getUsers" /\ client.page = Len(run.requested)
  /\ (run.result.returned /\ run.result.success) =>
       Len(run.requested) >= run.totalPages

\* A step that writes rows of the user phase writes those of the page
\* requested last, whose fetch has returned, before any other page is
\* requested; that page was not written before and is higher than every
\* page written before.
PersistedInOrder ==
  user_game_stats' # user_game_stats =>
    LET p == run.requested[Len(run.requested)]
    IN /\ Len(run.requested) > 0
       /\ client.pc = "returned" /\ client.page = p
       /\ user_game_stats' = user_game_stats \cup {<<run.game.id, p>>}
       /\ \A q \in PersistedPages : q < p
       /\ run'.requested \in {run.requested, Append(run.requested, p + 1)}

Identified(page) == {i \in 1..Len(page) : page[i].externalId # "none"}

\* The number of identified users on the upstream pages numbered in S.
RECURSIVE IdentifiedOn(_)
IdentifiedOn(S) ==
  IF S = {} THEN 0
  ELSE LET p == CHOOSE x \in S : TRUE
       IN Cardinality(Identified(rows.upstream.users[p])) + IdentifiedOn(S \ {p})

\* C33: no row of user_game_stats is that of a user without an external
\* identity; usersSynced counts the identified users of the pages the
\* store accepted and no other user; and a page fails only if it holds an
\* identified user and the store rejected it, so a page of users without
\* identity never fails.
C33_UnidentifiedUsersDropped ==
  LET pages == 1..Len(rows.upstream.users)
  IN /\ \A r \in rows.user_game_stats : r.external_id # "none"
     /\ \A k \in 1..Len(rows.runs) :
          LET r == rows.runs[k]
              failed == {r.failedPages[i] : i \in 1..Len(r.failedPages)}
          IN /\ r.usersSynced = IdentifiedOn(r.pages \cap pages)
             /\ \A p \in pages :
                  p \in failed <=>
                    Identified(rows.upstream.users[p]) # {} /\ p \notin r.pages

\* A run over a page with a user without identity and a page the store
\* rejected: one user is counted and written, only page 2 failed.
C33_Witness ==
  /\ Len(rows.upstream.users) = 2
  /\ Len(rows.runs) = 1
  /\ rows.runs[1].pages = {1}
  /\ rows.runs[1].usersSynced = 1
  /\ rows.runs[1].failedPages = <<2>>
  /\ \E r \in rows.user_game_stats : r.external_id = "a" /\ r.score = 10

\* A run over one page of users without identity, which the store would
\* have rejected: nothing is written and the page has not failed.
C33_WitnessEmptyPage ==
  /\ Len(rows.upstream.users) = 1
  /\ Identified(rows.upstream.users[1]) = {}
  /\ Len(rows.runs) = 1
  /\ rows.runs[1].pages = {}
  /\ rows.runs[1].usersSynced = 0
  /\ rows.runs[1].failedPages = <<>>

(***************************************************************************)
(* Termination of a run.                                                   *)
(***************************************************************************)
\* The attempts of the client's current call.
AttemptsMade == Len(client.answers)

\* The user phase has read totalPages from page 1's response.
TotalPagesKnown == run.page >= 1

\* An upper bound of the page requests of the user phase so far: four for
\* each earlier getUsers call, and the attempts of the current one.
PageRequestsAtMost ==
  IF Len(run.requested) = 0 THEN 0
  ELSE IF client.call = "getUsers" /\ client.page = Len(run.requested)
  THEN 4 * (Len(run.requested) - 1) + AttemptsMade
  ELSE 4 * Len(run.requested)

\* A call of requestWithRetry makes at most maxRetries + 1 attempts, a
\* call of request one, and the pages of the getUsers calls are distinct.
AttemptsBounded ==
  /\ client.attempt <= MAX_RETRIES + 1
  /\ AttemptsMade <= client.attempt
  /\ ~UsesRetry(client.call) => AttemptsMade <= 1
  /\ \A j, k \in 1..Len(run.requested) :
       run.requested[j] = run.requested[k] => j = k

\* An attempt of getUsers is one of at most four for the page requested
\* last.
AttemptOfRequestedPage ==
  (client'.answers # client.answers /\ client'.answers # <<>> /\ client'.call = "getUsers") =>
    /\ Len(run.requested) > 0
    /\ client'.page = run.requested[Len(run.requested)]
    /\ Len(client'.answers) = AttemptsMade + 1
    /\ Len(client'.answers) <= MAX_RETRIES + 1

\* The run has ended with a result.
RunReturned == run.pc = "done" /\ run.result.returned

\* C34 as stated: the page requests of the user phase are at most
\* 4 x totalPages.
C34_AtMostFourPerTotalPages ==
  TotalPagesKnown => PageRequestsAtMost <= 4 * run.totalPages

\* C34: every run that has started returns a result; every call of
\* requestWithRetry makes at most maxRetries + 1 attempts; and the page
\* requests of the user phase are at most four for each of the pages
\* 1..totalPages, page 1 included when totalPages is 0, totalPages being
\* read once.
C34_RunTerminates ==
  /\ []AttemptsBounded
  /\ [][AttemptOfRequestedPage]_vars
  /\ [](TotalPagesKnown =>
          /\ Len(run.requested) <= (IF run.totalPages > 1 THEN run.totalPages ELSE 1)
          /\ PageRequestsAtMost <= 4 * (IF run.totalPages > 1 THEN run.totalPages ELSE 1))
  /\ [][TotalPagesKnown => run'.totalPages = run.totalPages \/ run'.n # run.n]_vars
  /\ (run.n = 1) ~> RunReturned

\* A run over three pages whose second page took four attempts returned.
C34_Witness ==
  /\ RunReturned
  /\ run.totalPages = 3
  /\ run.requested = <<1, 2, 3>>
  /\ run.failedPages = <<2>>

(***************************************************************************)
(* Inactive records.                                                       *)
(***************************************************************************)
\* The pass has dispatched, or is about to dispatch, a campaign for the
\* trigger and the game it holds.
Dispatching(p) == pass[p].pc \in {"process", "log", "update"}

PrevCall(i) ==
  LET earlier == {j \in 1..(i - 1) : limiter.calls[j].key = limiter.calls[i].key}
  IN IF earlier = {} THEN 0 ELSE CHOOSE j \in earlier : \A k \in earlier : k <= j

WindowMs == limiter.config.windowSeconds * 1000

\* The time of the call that opened the window call i falls in: call i
\* itself when the key had no call before or its window had expired.
RECURSIVE WindowOpened(_)
WindowOpened(i) ==
  LET j == PrevCall(i)
  IN IF j = 0 THEN limiter.calls[i].at
     ELSE IF limiter.calls[i].at > WindowOpened(j) + WindowMs THEN limiter.calls[i].at
     ELSE WindowOpened(j)

\* The calls up to call i in the window of call i.
WindowCalls(i) ==
  {j \in 1..i : /\ limiter.calls[j].key = limiter.calls[i].key
                /\ WindowOpened(j) = WindowOpened(i)}

\* C36: in every window of every key the first `limit` calls succeed,
\* with remaining counting down to 0, and every further call is refused
\* with remaining = 0; the window runs from the call that opened it to its
\* resetTime, that instant included, and the first call after it opens a
\* new window and succeeds; the reported remaining is never negative.
C36_AtMostLimitPerWindow ==
  \A i \in 1..Len(limiter.calls) :
    LET call == limiter.calls[i]
        n == Cardinality(WindowCalls(i))
    IN /\ call.result.success <=> n <= limiter.config.limit
       /\ call.result.remaining = (IF n <= limiter.config.limit
                                   THEN limiter.config.limit - n ELSE 0)
       /\ call.result.remaining >= 0
       /\ call.result.resetTime = WindowOpened(i) + WindowMs
       /\ Cardinality({j \in WindowCalls(i) : limiter.calls[j].result.success})
            <= limiter.config.limit
       /\ n = 1 => call.result.success /\ call.at = WindowOpened(i)

\* With a limit of 2, a key's third call is refused, the call on the
\* window's resetTime as well, and the call after it succeeds.
C36_Witness ==
  /\ limiter.config = [limit |-> 2, windowSeconds |-> 1]
  /\ Len(limiter.calls) = 5
  /\ \A i \in 1..5 : limiter.calls[i].key = "api:k1"
  /\ limiter.calls[1].result.success /\ limiter.calls[2].result.success
  /\ ~limiter.calls[3].result.success /\ limiter.calls[3].result.remaining = 0
  /\ limiter.calls[4].at = limiter.calls[1].result.resetTime
  /\ ~limiter.calls[4].result.success
  /\ limiter.calls[5].at > limiter.calls[1].result.resetTime
  /\ limiter.calls[5].result.success /\ limiter.calls[5].result.remaining = 1

====
